---- MODULE Spec2Model ----
(***************************************************************************)
(* Traffic plane of the trafexia intercepting proxy:                       *)
(*   BreakpointService  (electron/main/services/BreakpointService.ts)      *)
(*   ProxyServer        (electron/main/services/ProxyServer.ts)            *)
(*   TrafficStorage     (electron/main/services/RequestComposer.ts)        *)
(*   MockService        (unnamed/part_001)                                 *)
(*                                                                         *)
(* Node runs every handler to completion on one thread, and the            *)
(* continuation of an `await` runs as a microtask before the next event,   *)
(* so one action is one event-loop callback together with the promise      *)
(* continuations it releases.                                              *)
(***************************************************************************)
EXTENDS Integers, Sequences, FiniteSets, TLC

\* ------------------------------------------------------------------ bounds
MaxExchanges == 2
MaxStarts == 2
MaxStops == 2
MaxSockets == 2
MaxRows == 3
MaxSends == 2

\* RequestComposer: the first id of its private counter.
RequestIdStart == 1000000

Exchanges == 1..MaxExchanges
\* Ids a controller may name: every id a pause can get, and one no pause gets.
PauseIds == 1..(MaxExchanges + 1)

\* The most rules addRule is asked to add, and the latest value of Date.now().
MaxRules == 2
MaxClock == 3

\* The largest chunk a 'data' event of a TLS socket delivers, in units.
MaxChunk == 4

\* ---------------------------------------------------------- input domains
Null == "<null>"
NoPattern == "<unset>"
Hosts == {"a.test", "b.test"}

\* A URL string is kept as its parts: "http://a.test/p" is
\* [scheme |-> "http", host |-> "a.test", path |-> "/p"].
Url(scheme, host, path) == [scheme |-> scheme, host |-> host, path |-> path]

\* A urlPattern is modelled by the set of URLs the compiled, case-insensitive
\* RegExp accepts; "(" stands for a pattern `new RegExp` throws on.
Patterns == {".*", "a\\.test", "("}

RegexValid(p) == p # "("

\* text.toLowerCase(), for the host names of the model.
Lower(text) == IF text = "A.TEST" THEN "a.test" ELSE text

\* new RegExp(p, 'i').test(u)
RegexTest(p, u) ==
    CASE p = ".*" -> TRUE
      [] p = "a\\.test" -> Lower(u.host) = "a.test"
      [] OTHER -> FALSE

\* URLs shouldBreak and findMatchingRule may be asked about: those of the
\* client requests, and one whose host is written in capitals.
Urls ==
    { Url("http", "a.test", "/p"), Url("http", "b.test", "/q"),
      Url("http", "A.TEST", "/p") }

\* Requests a client sends on the plain-HTTP leg.
ClientRequests ==
    { [method |-> "GET", url |-> Url("http", "a.test", "/p"),
       headers |-> {"accept", "proxy-connection"}, body |-> ""],
      [method |-> "POST", url |-> Url("http", "b.test", "/q"),
       headers |-> {"accept"}, body |-> "A"] }

\* DEFAULT_SETTINGS.maxRequestBodySize, in bytes.
maxRequestBodySize == 1048576

\* Uploads a client sends on the plain-HTTP leg: a one-byte body, and a body
\* of 2 MiB.
UploadRequests ==
    { [method |-> "POST", url |-> Url("http", "b.test", "/q"),
       headers |-> {"accept"}, body |-> body] : body \in {"A", "<2 MiB>"} }

\* Requests a client sends inside an intercepted TLS connection to hostname.
TlsRequests ==
    { [hostname |-> "a.test", method |-> "GET", path |-> "/p",
       headers |-> {"accept", "proxy-connection"}, body |-> ""],
      [hostname |-> "b.test", method |-> "POST", path |-> "/q",
       headers |-> {"accept"}, body |-> "A"] }

\* The bytes of a request on an intercepted connection, in units: the head
\* (request line and header lines up to and including the empty line), then
\* the body, one unit per byte.
RequestHead(tls) ==
    [unit |-> "head", method |-> tls.method, path |-> tls.path,
     headers |-> tls.headers,
     contentLength |-> IF tls.body = "" THEN 0 ELSE 1, byte |-> ""]

BodyByte(byte) ==
    [unit |-> "body", method |-> "", path |-> "", headers |-> {},
     contentLength |-> 0, byte |-> byte]

Bytes(tls) ==
    IF tls.body = "" THEN <<RequestHead(tls)>>
    ELSE <<RequestHead(tls), BodyByte(tls.body)>>

\* What a client sends on one intercepted connection: two requests, one
\* after the other (HTTP keep-alive), the second for another path.
TlsStreams ==
    { [hostname |-> tls.hostname,
       incoming |-> Bytes(tls) \o Bytes([tls EXCEPT !.path = "/next"]),
       read |-> 0, buffer |-> <<>>] : tls \in TlsRequests }

\* Upgrade requests a client sends on the plain-HTTP leg.
UpgradeRequests ==
    { [method |-> "GET", url |-> Url("http", "b.test", "/ws"),
       headers |-> {"upgrade"}, body |-> ""] }

\* What a controller may pass as `modified` to continue(id, modified): an
\* InterceptedRequest of its own making.
Modifications ==
    { [id |-> 1, type |-> "request", method |-> "PUT",
       url |-> Url("http", "b.test", "/edited"), headers |-> {"x-mod"},
       body |-> "B"],
      [id |-> 2, type |-> "request", method |-> "POST",
       url |-> Url("http", "a.test", "/edited"), headers |-> {"x-mod"},
       body |-> Null] }

\* What a user may hand to the composer's sendRequest.
ComposedRequests ==
    { [method |-> "PUT", url |-> Url("http", "a.test", "/p"),
       headers |-> {"accept"}, body |-> "B"] }

\* What an origin may answer: the status, the content-encoding header and the
\* body bytes on the wire. "<gzip>" is the 20-byte gzip stream of no bytes.
OriginResponses ==
    { [status |-> 200, encoding |-> "", body |-> "hello"],
      [status |-> 404, encoding |-> "gzip", body |-> "<gzip>"] }

ErrorMessages == {"ECONNRESET"}

\* What start(config) may be given: the port is the same in both, HTTPS
\* interception is on in one and off in the other.
ProxyConfigs ==
    { [port |-> "8888", enableHttps |-> TRUE],
      [port |-> "8888", enableHttps |-> FALSE] }

\* The status lines the proxy writes to a client socket after CONNECT.
Established == "HTTP/1.1 200 Connection Established"

BadGateway == "HTTP/1.1 502 Bad Gateway"

\* Values of Date.now() a handler may stamp a request with.
Timestamps == {1, 2}

\* Rows as handed to saveRequest by the handlers: the columns the store
\* filters and sorts by, the header mappings (the set of header names stands
\* for the mapping) and the bodies.
StoredRequests ==
    { [timestamp |-> t, method |-> "GET", url |-> Url("http", "a.test", "/p"),
       status |-> 200, contentType |-> "application/json",
       requestHeaders |-> {"accept"}, responseHeaders |-> {"content-type"},
       requestBody |-> Null, responseBody |-> "hello"] : t \in Timestamps }
    \cup
    { [timestamp |-> t, method |-> "POST", url |-> Url("http", "b.test", "/q"),
       status |-> 0, contentType |-> "",
       requestHeaders |-> {"accept"}, responseHeaders |-> {},
       requestBody |-> "A", responseBody |-> Null] : t \in Timestamps }

\* What the request_headers column of a row may hold in a database file the
\* store opens as it finds it: NULL, or text that breaks off inside the
\* object.
FileHeaderTexts == {Null, "{\"accept\":"}

\* Rows of such a file.
FileRows ==
    { [timestamp |-> 1, method |-> "GET", url |-> Url("http", "a.test", "/p"),
       status |-> 200, contentType |-> "application/json",
       requestHeaders |-> text, responseHeaders |-> "{}",
       requestBody |-> Null, responseBody |-> "hello"] :
      text \in FileHeaderTexts }

\* FilterOptions a caller may pass to getRequests and getRequestCount; "",
\* the empty set, <<>> and 0 stand for a field that is not set.
Filters ==
    [searchQuery : {"", "a.test"},
     methods : {{}, {"GET"}},
     statusCodes : {{}, {200}},
     hosts : {{}, {"b.test"}},
     contentTypes : {{}, {"json"}},
     dateRange : {<<>>, <<[start |-> 2, end |-> 2]>>},
     limit : {0},
     offset : {0}]

\* The limit and offset a caller may add to a filter; 0 stands for a field
\* that is not set.
Pages == [limit : {0, 1, 2}, offset : {0, 1, 2}]

\* The last id a database file that has been in use may have handed out:
\* none yet, or nearly as many as the composer's counter starts at.
StoreStarts == {0, RequestIdStart - 2}

\* Mock rule collections (MockService.rules, a Map in insertion order).
RuleTeapot ==
    [enabled |-> TRUE, method |-> "", urlPattern |-> "a\\.test",
     responseStatus |-> 418, responseBody |-> "teapot", delay |-> 50]
RuleDisabled ==
    [enabled |-> FALSE, method |-> "", urlPattern |-> ".*",
     responseStatus |-> 500, responseBody |-> "off", delay |-> 0]
RuleBadRegex ==
    [enabled |-> TRUE, method |-> "", urlPattern |-> "(",
     responseStatus |-> 500, responseBody |-> "bad", delay |-> 0]
RulePost ==
    [enabled |-> TRUE, method |-> "POST", urlPattern |-> ".*",
     responseStatus |-> 201, responseBody |-> "made", delay |-> 0]

\* Rules a user may add (addRule gives them their id). Both patterns accept
\* the URLs of a.test.
NewRules == {RuleTeapot, RuleDisabled}

\* The `updates` a user may pass to updateRule: fields not to be changed are
\* left out; these try to change the id as well.
RuleUpdates == { [id |-> 9, responseStatus |-> 500] }

RuleCollections ==
    { <<>>,
      <<RuleDisabled, RuleBadRegex, RuleTeapot>>,
      <<RulePost>>,
      <<RulePost, RuleTeapot>> }

\* Breakpoint configurations (BreakpointService.config).
BreakpointConfigs ==
    { [enabled |-> FALSE, breakOnRequest |-> TRUE, breakOnResponse |-> FALSE,
       urlPattern |-> NoPattern],
      [enabled |-> TRUE, breakOnRequest |-> TRUE, breakOnResponse |-> FALSE,
       urlPattern |-> NoPattern],
      [enabled |-> TRUE, breakOnRequest |-> TRUE, breakOnResponse |-> TRUE,
       urlPattern |-> "a\\.test"],
      [enabled |-> TRUE, breakOnRequest |-> FALSE, breakOnResponse |-> TRUE,
       urlPattern |-> NoPattern],
      [enabled |-> TRUE, breakOnRequest |-> TRUE, breakOnResponse |-> FALSE,
       urlPattern |-> "("] }

VARIABLES
    \* BreakpointService
    config,          \* BreakpointConfig
    pendingRequests, \* the Map id -> {resolve, reject, intercepted}, in insertion order
    promises,        \* per allocated pause id: the promise pauseAtBreakpoint returned
    timers,          \* pause ids whose 5-minute setTimeout has not fired yet
    hits,            \* 'breakpoint:hit' events emitted
    \* MockService
    rules,
    \* TrafficStorage (table requests)
    rows,            \* live rows, id -> row
    lastRowId,       \* AUTOINCREMENT high-water mark
    \* ProxyServer, per exchange
    ex,              \* handler position and what it has done
    events,          \* 'request:complete' events emitted, in order
    \* ProxyServer, the front
    running,         \* this.running
    server,          \* this.server: 0 for null, else the handle of an http.Server
    proxyConfig,     \* this.config: <<>> for null
    certCache,       \* this.certCache: hostname -> <<>> (absent) or <<certData>>
    activeSockets,   \* this.activeSockets
    \* the runtime objects the front holds or has handed callbacks to
    servers,         \* per http.Server created: where it is in its life
    stops,           \* per stop() call past its guard: timer, close callback, promise
    conns,           \* per accepted client connection: its sockets
    minted,          \* per hostname: generateServerCert calls made, and returned
    \* RequestComposer
    requestIdCounter, \* this.requestIdCounter
    sent,            \* per sendRequest call: the promise it returned
    \* the caller of the store's read operations
    answer,          \* what the last getRequestById or getRequests call gave
    \* the listener registered for 'breakpoint:hit'
    controller,      \* what it does when called: see Controllers
    \* an intercepted TLS connection after its handshake
    tlsSocket,       \* what the client sends on it, and handleTlsConnection's buffer
    \* the mock rules as persisted
    mockRules,       \* table mock_rules: id -> row
    now,             \* Date.now()
    uuids,           \* randomUUID() calls made by addRule
    \* the IPC handlers
    listeners,       \* per 'request:complete' listener PROXY_START added: the events emitted before it
    \* the caller of start() and stop()
    refused          \* the last call the proxy refused: see StartWhileRunning, StopWhileNotRunning

exchangeVars == <<config, pendingRequests, promises, timers, hits, rules,
                  rows, lastRowId, ex, events>>

frontVars == <<running, server, proxyConfig, certCache, activeSockets,
               servers, stops, conns, minted>>

mockVars == <<mockRules, now, uuids>>

callerVars == <<requestIdCounter, sent, answer, controller, tlsSocket,
                   mockVars, listeners,
                   refused>>

vars == <<exchangeVars, frontVars, callerVars>>

\* -------------------------------------------------------------- MockService

\* The scan of findMatchingRule with the try/catch around the whole loop: an
\* invalid pattern ends the scan with null.
RECURSIVE findFromAborting(_, _, _, _)
findFromAborting(rs, i, method, url) ==
    IF i > Len(rs) THEN 0
    ELSE IF ~rs[i].enabled THEN findFromAborting(rs, i + 1, method, url)
    ELSE IF rs[i].method # "" /\ rs[i].method # method
         THEN findFromAborting(rs, i + 1, method, url)
    ELSE IF ~RegexValid(rs[i].urlPattern) THEN 0
    ELSE IF RegexTest(rs[i].urlPattern, url) THEN i
    ELSE findFromAborting(rs, i + 1, method, url)

findMatchingRuleAborting(rs, method, url) == findFromAborting(rs, 1, method, url)

\* The scan of findMatchingRule from the i-th rule on, in insertion order.
RECURSIVE findFrom(_, _, _, _)
findFrom(rs, i, method, url) ==
    IF i > Len(rs) THEN 0
    ELSE IF ~rs[i].enabled THEN findFrom(rs, i + 1, method, url)
    ELSE IF rs[i].method # "" /\ rs[i].method # method
         THEN findFrom(rs, i + 1, method, url)
    ELSE IF RegexValid(rs[i].urlPattern) /\ RegexTest(rs[i].urlPattern, url)
         THEN i
    ELSE findFrom(rs, i + 1, method, url)

\* Index of the matching rule in the collection, 0 for null.
findMatchingRule(rs, method, url) == findFrom(rs, 1, method, url)

generateMockResponse(rule) ==
    [status |-> rule.responseStatus, body |-> rule.responseBody]

\* -------------------------------------------------------- BreakpointService

\* shouldBreak with the catch block answering true.
shouldBreakInvalidBreaks(cfg, type, url) ==
    IF ~cfg.enabled THEN FALSE
    ELSE IF type = "request" /\ ~cfg.breakOnRequest THEN FALSE
    ELSE IF type = "response" /\ ~cfg.breakOnResponse THEN FALSE
    ELSE IF cfg.urlPattern # NoPattern
         THEN ~RegexValid(cfg.urlPattern) \/ RegexTest(cfg.urlPattern, url)
    ELSE TRUE

\* shouldBreak(type, _method, url) under the configuration cfg.
shouldBreak(cfg, type, url) ==
    IF ~cfg.enabled THEN FALSE
    ELSE IF type = "request" /\ ~cfg.breakOnRequest THEN FALSE
    ELSE IF type = "response" /\ ~cfg.breakOnResponse THEN FALSE
    ELSE IF cfg.urlPattern # NoPattern
         THEN RegexValid(cfg.urlPattern) /\ RegexTest(cfg.urlPattern, url)
    ELSE TRUE

\* ----------------------------------------------------------- TrafficStorage
\* The operators below act on a record w of the mutable state a handler and
\* the promise continuations it releases go through:
\*   w.rows, w.lastRowId, w.events, w.ex, w.promises.

World == [rows |-> rows, lastRowId |-> lastRowId, events |-> events,
          ex |-> ex, promises |-> promises]

\* The columns that hold a header mapping as JSON text. The handlers' rows
\* are kept without them where no property reads them.
HeaderColumns == {"requestHeaders", "responseHeaders"}

\* JSON.stringify(headers)
JSONstringify(headers) ==
    CASE headers = {} -> "{}"
      [] headers = {"accept"} -> "{\"accept\":\"*/*\"}"
      [] headers = {"content-type"} ->
            "{\"content-type\":\"application/json\"}"

\* JSON.parse(text): the object, or a SyntaxError thrown.
JSONparse(text) ==
    CASE text = "{}" -> [threw |-> FALSE, value |-> {}]
      [] text = "{\"accept\":\"*/*\"}" ->
            [threw |-> FALSE, value |-> {"accept"}]
      [] text = "{\"content-type\":\"application/json\"}" ->
            [threw |-> FALSE, value |-> {"content-type"}]
      [] OTHER -> [threw |-> TRUE, value |-> {}]

\* The values bound to the INSERT of saveRequest.
Bound(request) ==
    [c \in DOMAIN request |->
        IF c \in HeaderColumns THEN JSONstringify(request[c]) ELSE request[c]]

\* saveRequest on a table without AUTOINCREMENT: the id is one more than the
\* largest id present.
saveRequestReusingIds(w, request) ==
    LET present == DOMAIN w.rows
        top == IF present = {} THEN 0
               ELSE CHOOSE i \in present : \A j \in present : j <= i
        id == top + 1
    IN  [w EXCEPT !.lastRowId = id,
                  !.rows = (id :> ([id |-> id] @@ Bound(request))) @@ w.rows]

\* INSERT INTO requests ...; the id is lastInsertRowid of an AUTOINCREMENT key.
saveRequest(w, request) ==
    LET id == w.lastRowId + 1
    IN  [w EXCEPT !.rows = (id :> ([id |-> id] @@ Bound(request))) @@ w.rows,
                  !.lastRowId = id]

\* updateResponse falling back on the newest row when `id` is not in the table.
updateResponseNewestRow(w, id, data) ==
    LET present == DOMAIN w.rows
        target == IF id \in present \/ present = {} THEN id
                  ELSE CHOOSE i \in present : \A j \in present : j <= i
    IN  IF target \in present
        THEN [w EXCEPT !.rows[target] =
                          [@ EXCEPT !.status = data.status,
                                    !.responseBody = data.responseBody,
                                    !.size = data.size]]
        ELSE w

\* UPDATE requests SET status = ?, response_body = ?, size = ? ... WHERE id = ?
updateResponse(w, id, data) ==
    IF id \in DOMAIN w.rows
    THEN [w EXCEPT !.rows[id] = [@ EXCEPT !.status = data.status,
                                         !.responseBody = data.responseBody,
                                         !.size = data.size]]
    ELSE w

\* row.request_headers || '{}'
OrEmptyObject(text) == IF text \in {Null, ""} THEN "{}" ELSE text

\* mapRowToRequest(row): the row with its header columns parsed; the call
\* throws when JSON.parse does. The outcome of a read is
\* [threw |-> FALSE, value |-> v] or [threw |-> TRUE, value |-> <<>>].
mapRowToRequest(row) ==
    LET parsed(c) == JSONparse(OrEmptyObject(row[c]))
    IN  IF \E c \in DOMAIN row \cap HeaderColumns : parsed(c).threw
        THEN [threw |-> TRUE, value |-> <<>>]
        ELSE [threw |-> FALSE,
              value |-> <<[c \in DOMAIN row |->
                             IF c \in HeaderColumns THEN parsed(c).value
                             ELSE row[c]]>>]

\* SELECT * FROM requests WHERE id = ?  (value <<>> for null)
getRequestById(w, id) ==
    IF id \in DOMAIN w.rows THEN mapRowToRequest(w.rows[id])
    ELSE [threw |-> FALSE, value |-> <<>>]

\* -------------------------------------------------------------- ProxyServer

\* const saved = storage.getRequestById(id); if (saved) emit('request:complete', saved)
\* The event keeps the exchange that emitted it beside the payload.
emitComplete(w, e, id) ==
    LET saved == getRequestById(w, id).value
    IN  IF saved # <<>>
        THEN [w EXCEPT !.events = Append(@, [ex |-> e, row |-> saved[1]])]
        ELSE w

\* `reqBodyStr || null`, `body.length > 0 ? body.toString() : null`
OrNull(body) == IF body = "" THEN Null ELSE body

\* The body bytes a write of `body` puts on the wire (none for null or "").
OnWire(body) == IF body = Null THEN "" ELSE body

\* Buffer.byteLength(text), buffer.length: the number of bytes.
byteLength(bytes) ==
    CASE bytes = "" -> 0
      [] bytes \in {"off", "bad"} -> 3
      [] bytes = "made" -> 4
      [] bytes = "hello" -> 5
      [] bytes = "teapot" -> 6
      [] bytes = "<gzip>" -> 20
      [] bytes \in {"A", "B"} -> 1
      [] bytes = "<2 MiB>" -> 2097152

\* zlib.gunzipSync(buffer): the inflated bytes, or an error thrown for bytes
\* that are no gzip stream.
gunzipSync(bytes) ==
    IF bytes = "<gzip>" THEN [threw |-> FALSE, value |-> ""]
    ELSE [threw |-> TRUE, value |-> ""]

\* responseData with the size taken from the inflated body.
responseDataInflatedSize(res) ==
    LET inflated == IF res.encoding = "gzip" /\ ~gunzipSync(res.body).threw
                    THEN gunzipSync(res.body).value
                    ELSE res.body
    IN  [status |-> res.status, responseBody |-> inflated,
         size |-> byteLength(inflated)]

\* The response data of the proxyRes 'end' handlers: the body is inflated by
\* its content-encoding for the row (kept as read when that fails), the size
\* is the length of the buffer as read. Bodies here are far below the 5 MiB
\* above which the row gets a note in place of the body.
responseData(res) ==
    LET inflated == IF res.encoding = "gzip" /\ ~gunzipSync(res.body).threw
                    THEN gunzipSync(res.body).value
                    ELSE res.body
    IN  [status |-> res.status, responseBody |-> inflated,
         size |-> byteLength(res.body)]

\* handleRequest, lines 276-321: persist the pending row and issue the
\* upstream request with `options`; the body written is reqBodyStr.
forwardHttp(w, e, options) ==
    LET req == w.ex[e].req[1]
        w1 == saveRequest(w, [timestamp |-> e, method |-> req.method,
                              url |-> req.url,
                              status |-> 0, requestBody |-> OrNull(req.body),
                              responseBody |-> Null, size |-> 0])
    IN  [w1 EXCEPT !.ex[e] = [@ EXCEPT
            !.pc = "upstream",
            !.rowId = w1.lastRowId,
            !.upstream = Append(@, [method |-> options.method,
                                    headers |-> options.headers,
                                    body |-> req.body])]]

\* handleRequest, lines 186-195: options built from the client's request.
httpOptions(req) ==
    [method |-> req.method, headers |-> req.headers \ {"proxy-connection"}]

\* resumeHttp with the `return` of the catch block lost: the 499 is written
\* and the handler goes on to forward the request.
resumeHttpDropForwards(w, e, outcome) ==
    IF outcome.kind = "reject"
    THEN forwardHttp(
            [w EXCEPT !.ex[e].client =
                Append(@, [status |-> 499, body |-> "Request dropped by user"])],
            e, httpOptions(w.ex[e].req[1]))
    ELSE IF outcome.value # <<>>
    THEN forwardHttp(w, e, [method |-> outcome.value[1].method,
                            headers |-> outcome.value[1].headers])
    ELSE forwardHttp(w, e, httpOptions(w.ex[e].req[1]))

\* handleRequest, lines 250-273: what follows the await of pauseAtBreakpoint.
\* `outcome` is how the promise settled: [kind |-> "resolve", value |-> v]
\* with v = <<>> for null, or [kind |-> "reject"].
resumeHttp(w, e, outcome) ==
    IF outcome.kind = "reject"
    THEN [w EXCEPT !.ex[e] = [@ EXCEPT
            !.pc = "done",
            !.client = Append(@, [status |-> 499,
                                  body |-> "Request dropped by user"])]]
    ELSE IF outcome.value # <<>>
    THEN forwardHttp(w, e, [method |-> outcome.value[1].method,
                            headers |-> outcome.value[1].headers])
    ELSE forwardHttp(w, e, httpOptions(w.ex[e].req[1]))

\* sendMock answering the client with a fixed 200 instead of the rule's status.
sendMockStatus200(w, e) ==
    LET req == w.ex[e].req[1]
        mock == generateMockResponse(w.ex[e].rule[1])
        w1 == saveRequest(w, [timestamp |-> e, method |-> req.method,
                              url |-> req.url,
                              status |-> mock.status,
                              requestBody |-> OrNull(req.body),
                              responseBody |-> mock.body,
                              size |-> byteLength(mock.body)])
        w2 == emitComplete(w1, e, w1.lastRowId)
    IN  [w2 EXCEPT !.ex[e] = [@ EXCEPT
            !.pc = "done",
            !.rowId = w1.lastRowId,
            !.client = Append(@, [status |-> 200, body |-> mock.body])]]

\* handleRequest, lines 215-243, and sendMockResponseToHttpsClient: the
\* synthetic row, its event, and the mock written to the client.
sendMock(w, e) ==
    LET req == w.ex[e].req[1]
        mock == generateMockResponse(w.ex[e].rule[1])
        w1 == saveRequest(w, [timestamp |-> e, method |-> req.method,
                              url |-> req.url,
                              status |-> mock.status,
                              requestBody |-> OrNull(req.body),
                              responseBody |-> mock.body,
                              size |-> byteLength(mock.body)])
        w2 == emitComplete(w1, e, w1.lastRowId)
    IN  [w2 EXCEPT !.ex[e] = [@ EXCEPT
            !.pc = "done",
            !.rowId = w1.lastRowId,
            !.client = Append(@, [status |-> mock.status, body |-> mock.body])]]

\* -------------------------------------------------------- BreakpointService

\* resolve(value) / reject(error) on the promise of pause `id`, called by
\* `by`: a promise settles on the first call only, and its awaiting handler
\* then resumes. The promise keeps who settled it and with what.
settle(w, id, by, outcome) ==
    LET p == w.promises[id]
        w1 == [w EXCEPT !.promises[id].settles = @ + 1]
    IN  IF p.state # "pending" THEN w1
        ELSE resumeHttp(
                [w1 EXCEPT !.promises[id].state =
                    IF outcome.kind = "reject" THEN "rejected" ELSE "resolved",
                           !.promises[id].by = by,
                           !.promises[id].outcome = <<outcome>>],
                p.ex, outcome)

Resolve(v) == [kind |-> "resolve", value |-> v]
Reject == [kind |-> "reject"]

\* this.pendingRequests.get(id)  (<<>> for undefined)
pendingGet(id) ==
    SelectSeq(pendingRequests, LAMBDA p : p.id = id)

\* this.pendingRequests.delete(id)
pendingDelete(id) ==
    SelectSeq(pendingRequests, LAMBDA p : p.id # id)


\* ------------------------------------------------------------------ state

NoExchange ==
    [path |-> "none", pc |-> "idle", req |-> <<>>, rule |-> <<>>,
     pauseId |-> 0, rowId |-> 0, upstream |-> <<>>, res |-> <<>>,
     client |-> <<>>, errored |-> FALSE]

\* No intercepted TLS connection is being read.
NoTlsSocket == [hostname |-> "", incoming |-> <<>>, read |-> 0, buffer |-> <<>>]

\* No read of the store has been answered yet.
NoAnswer == [call |-> "none", threw |-> FALSE, value |-> <<>>]

\* What a 'breakpoint:hit' listener may do with the snapshot it is called
\* with: keep it for a later turn (show it, answer when the user decides), or
\* call continue(id) or drop(id) before it returns.
Controllers == {"later", "continue", "drop"}

\* An empty mock_rules table.
InitMock == mockRules = <<>> /\ now = 0 /\ uuids = 0

\* The services after construction.
InitExchanges ==
    /\ config \in BreakpointConfigs
    /\ rules \in RuleCollections
    /\ pendingRequests = <<>>
    /\ promises = <<>>
    /\ timers = {}
    /\ hits = <<>>
    /\ rows = <<>>
    /\ lastRowId = 0
    /\ ex = [e \in Exchanges |-> NoExchange]
    /\ events = <<>>
    /\ requestIdCounter = RequestIdStart
    /\ sent = <<>>
    /\ answer = NoAnswer

\* The services with a listener that answers in a later turn.
InitTraffic ==
    InitExchanges /\ controller = "later" /\ tlsSocket = NoTlsSocket /\ InitMock

\* The ProxyServer after construction: not running, no server, no config.
Constructed ==
    /\ running = FALSE
    /\ server = 0
    /\ proxyConfig = <<>>
    /\ certCache = [h \in Hosts |-> <<>>]
    /\ activeSockets = {}
    /\ servers = <<>>
    /\ stops = <<>>
    /\ conns = <<>>
    /\ minted = [h \in Hosts |-> [invoked |-> 0, returned |-> 0]]
    /\ listeners = <<>>
    /\ refused = "none"

\* The ProxyServer after the PROXY_START handler has run once: one server,
\* listening, and the handler's 'request:complete' listener.
Started ==
    /\ running = TRUE
    /\ server = 1
    /\ proxyConfig \in {<<c>> : c \in ProxyConfigs}
    /\ certCache = [h \in Hosts |-> <<>>]
    /\ activeSockets = {}
    /\ servers = <<"listening">>
    /\ stops = <<>>
    /\ conns = <<>>
    /\ minted = [h \in Hosts |-> [invoked |-> 0, returned |-> 0]]
    /\ listeners = <<0>>
    /\ refused = "none"

Init == InitTraffic /\ Started

\* The state after a handler and its continuations have run.
Apply(w) ==
    /\ rows' = w.rows
    /\ lastRowId' = w.lastRowId
    /\ events' = w.events
    /\ ex' = w.ex
    /\ promises' = w.promises

\* Exchanges are numbered in the order the proxy receives them.
Arrives(e) ==
    /\ ex[e].path = "none"
    /\ \A f \in Exchanges : f < e => ex[f].path # "none"

\* ------------------------------------------------ BreakpointService actions

\* pauseAtBreakpoint, called by the handler of exchange e in state w. Line 81
\* emits 'breakpoint:hit' and the listener runs inside emit: a continue(id) or
\* drop(id) it calls looks `id` up in the map as it is then (`heard`) and
\* returns without effect when it is not there. Line 85 registers the pause
\* after emit has returned.
pauseAtBreakpoint(w, e, type, req) ==
    LET id == Len(promises) + 1
        intercepted == [id |-> id, type |-> type, method |-> req.method,
                        url |-> req.url, headers |-> req.headers,
                        body |-> OrNull(req.body)]
        heard == IF controller = "later" THEN <<>> ELSE pendingGet(id)
        w1 == IF heard = <<>> THEN w
              ELSE settle(w, id, controller,
                          IF controller = "continue"
                          THEN Resolve(<<heard[1].intercepted>>) ELSE Reject)
    IN  /\ hits' = Append(hits, intercepted)
        /\ pendingRequests' =
              Append(IF heard = <<>> THEN pendingRequests ELSE pendingDelete(id),
                     [id |-> id, intercepted |-> intercepted])
        /\ timers' = timers \cup {id}
        /\ Apply([w1 EXCEPT
                !.promises = Append(@, [state |-> "pending", settles |-> 0,
                                        ex |-> e, by |-> "", outcome |-> <<>>]),
                !.ex[e] = [@ EXCEPT !.pc = "paused", !.pauseId = id]])

\* continue(id, modified?) resolving with the snapshot whatever it is given.
ContinueKeepsSnapshot(id, m) ==
    LET pending == pendingGet(id)
    IN  IF pending # <<>>
        THEN /\ pendingRequests' = pendingDelete(id)
             /\ Apply(settle(World, id,
                    IF m # <<>> THEN "continue(id, modified)" ELSE "continue(id)",
                    Resolve(<<pending[1].intercepted>>)))
             /\ UNCHANGED <<config, timers, hits, rules>>
             /\ UNCHANGED <<frontVars, callerVars>>
        ELSE UNCHANGED vars

\* continue(id, modified?): m is <<>> when the controller passes no
\* `modified`; the pause resolves with `modified || pending.intercepted`.
Continue(id, m) ==
    LET pending == pendingGet(id)
    IN  IF pending # <<>>
        THEN /\ pendingRequests' = pendingDelete(id)
             /\ Apply(settle(World, id,
                    IF m # <<>> THEN "continue(id, modified)" ELSE "continue(id)",
                    Resolve(<<IF m # <<>> THEN m[1]
                              ELSE pending[1].intercepted>>)))
             /\ UNCHANGED <<config, timers, hits, rules>>
             /\ UNCHANGED <<frontVars, callerVars>>
        ELSE UNCHANGED vars

\* drop(id) forgetting every pending pause when it does not find `id`.
DropAbsentForgetsAll(id) ==
    LET pending == pendingGet(id)
    IN  IF pending # <<>>
        THEN /\ pendingRequests' = pendingDelete(id)
             /\ Apply(settle(World, id, "drop(id)", Reject))
             /\ UNCHANGED <<config, timers, hits, rules>>
             /\ UNCHANGED <<frontVars, callerVars>>
        ELSE /\ pendingRequests' = <<>>
             /\ UNCHANGED <<config, promises, timers, hits, rules, rows,
                            lastRowId, ex, events>>
             /\ UNCHANGED <<frontVars, callerVars>>

\* drop(id)
Drop(id) ==
    LET pending == pendingGet(id)
    IN  IF pending # <<>>
        THEN /\ pendingRequests' = pendingDelete(id)
             /\ Apply(settle(World, id, "drop(id)", Reject))
             /\ UNCHANGED <<config, timers, hits, rules>>
             /\ UNCHANGED <<frontVars, callerVars>>
        ELSE UNCHANGED vars

\* The setTimeout callback forgetting the pause without resolving it.
WatchdogOnlyForgets(id) ==
    /\ id \in timers
    /\ timers' = timers \ {id}
    /\ pendingRequests' = pendingDelete(id)
    /\ UNCHANGED <<config, hits, rules, rows, lastRowId, events, ex, promises>>
    /\ UNCHANGED <<frontVars, callerVars>>

\* The setTimeout callback of pause `id` (nothing ever clears the timer).
Watchdog(id) ==
    /\ id \in timers
    /\ timers' = timers \ {id}
    /\ IF pendingGet(id) # <<>>
       THEN /\ pendingRequests' = pendingDelete(id)
            /\ Apply(settle(World, id, "watchdog", Resolve(<<>>)))
       ELSE UNCHANGED <<pendingRequests, rows, lastRowId, events, ex, promises>>
    /\ UNCHANGED <<config, hits, rules>>
    /\ UNCHANGED <<frontVars, callerVars>>

RECURSIVE resolveAll(_, _, _)
resolveAll(w, ps, i) ==
    IF i > Len(ps) THEN w
    ELSE resolveAll(settle(w, ps[i].id, "clearPending()",
                           Resolve(<<ps[i].intercepted>>)), ps, i + 1)

\* clearPending() without its final this.pendingRequests.clear().
ClearPendingKeepsMap ==
    /\ Apply(resolveAll(World, pendingRequests, 1))
    /\ UNCHANGED <<config, pendingRequests, timers, hits, rules>>
    /\ UNCHANGED <<frontVars, callerVars>>

\* clearPending(): resolve every pending pause with its snapshot, then clear.
ClearPending ==
    /\ Apply(resolveAll(World, pendingRequests, 1))
    /\ pendingRequests' = <<>>
    /\ UNCHANGED <<config, timers, hits, rules>>
    /\ UNCHANGED <<frontVars, callerVars>>

\* ------------------------------------------------------ ProxyServer actions

\* handleRequest: the clientReq 'end' callback, up to its first await.
HttpRequest(e, req) ==
    /\ Arrives(e)
    /\ LET rule == findMatchingRule(rules, req.method, req.url)
           w == [World EXCEPT !.ex[e] = [@ EXCEPT !.path = "http", !.req = <<req>>]]
       IN  IF rule # 0
           THEN /\ IF rules[rule].delay > 0
                   THEN Apply([w EXCEPT !.ex[e] = [@ EXCEPT
                                  !.pc = "mockDelay", !.rule = <<rules[rule]>>]])
                   ELSE Apply(sendMock([w EXCEPT !.ex[e].rule = <<rules[rule]>>], e))
                /\ UNCHANGED <<pendingRequests, timers, hits>>
           ELSE IF shouldBreak(config, "request", req.url)
           THEN pauseAtBreakpoint(w, e, "request", req)
           ELSE /\ Apply(forwardHttp(w, e, httpOptions(req)))
                /\ UNCHANGED <<pendingRequests, timers, hits>>
    /\ UNCHANGED <<config, rules>>
    /\ UNCHANGED <<frontVars, callerVars>>

\* The mock rule's delay has elapsed (both legs).
MockDelayElapsed(e) ==
    /\ ex[e].pc = "mockDelay"
    /\ Apply(sendMock(World, e))
    /\ UNCHANGED <<config, pendingRequests, timers, hits, rules>>
    /\ UNCHANGED <<frontVars, callerVars>>

\* http.request's response callback: handleProxyResponse writes the head to
\* the client and pipes the body.
HttpResponse(e, res) ==
    /\ ex[e].path = "http" /\ ex[e].pc = "upstream"
    /\ ex' = [ex EXCEPT ![e] = [@ EXCEPT
            !.pc = "streaming",
            !.res = <<res>>,
            !.client = Append(@, [status |-> res.status, body |-> ""])]]
    /\ UNCHANGED <<config, pendingRequests, promises, timers, hits, rules,
                   rows, lastRowId, events>>
    /\ UNCHANGED <<frontVars, callerVars>>

\* proxyRes 'end' in handleProxyResponse.
HttpResponseEnd(e) ==
    /\ ex[e].path = "http" /\ ex[e].pc = "streaming"
    /\ LET res == ex[e].res[1]
           w1 == updateResponse(World, ex[e].rowId, responseData(res))
           w2 == emitComplete(w1, e, ex[e].rowId)
       IN  Apply([w2 EXCEPT !.ex[e] = [@ EXCEPT
                    !.pc = "ended",
                    !.client[Len(ex[e].client)].body = res.body]])
    /\ UNCHANGED <<config, pendingRequests, timers, hits, rules>>
    /\ UNCHANGED <<frontVars, callerVars>>

\* HttpError answering 502 whether or not the response head has been sent.
HttpErrorAlwaysAnswers(e, msg) ==
    /\ ex[e].path = "http"
    /\ ex[e].pc \in {"upstream", "streaming", "ended"}
    /\ ~ex[e].errored
    /\ LET w1 == updateResponse(World, ex[e].rowId,
                    [status |-> 502, responseBody |-> msg, size |-> 0])
       IN  Apply([w1 EXCEPT !.ex[e] = [@ EXCEPT
                    !.errored = TRUE,
                    !.pc = IF ex[e].pc = "streaming" THEN "streaming" ELSE "done",
                    !.client = Append(@, [status |-> 502,
                                          body |-> "Proxy Error"])]])
    /\ UNCHANGED <<config, pendingRequests, timers, hits, rules>>
    /\ UNCHANGED <<frontVars, callerVars>>

\* proxyReq 'error' in handleRequest. Node reports a socket error on the
\* request for as long as the socket is attached to it: before the response,
\* while the body is read, and after the response ended until the socket
\* closes; it reports at most one.
HttpError(e, msg) ==
    /\ ex[e].path = "http"
    /\ ex[e].pc \in {"upstream", "streaming", "ended"}
    /\ ~ex[e].errored
    /\ LET w1 == updateResponse(World, ex[e].rowId,
                    [status |-> 502, responseBody |-> msg, size |-> 0])
       IN  Apply([w1 EXCEPT !.ex[e] = [@ EXCEPT
                    !.errored = TRUE,
                    !.pc = IF ex[e].pc = "streaming" THEN "streaming" ELSE "done",
                    !.client = IF ex[e].client = <<>>
                               THEN <<[status |-> 502, body |-> "Proxy Error"]>>
                               ELSE @]])
    /\ UNCHANGED <<config, pendingRequests, timers, hits, rules>>
    /\ UNCHANGED <<frontVars, callerVars>>

\* The upstream socket closes: no further event of this exchange follows.
UpstreamClose(e) ==
    /\ \/ ex[e].pc = "ended"
       \/ ex[e].pc = "streaming" /\ ex[e].errored
    /\ ex' = [ex EXCEPT ![e].pc = "done"]
    /\ UNCHANGED <<config, pendingRequests, promises, timers, hits, rules,
                   rows, lastRowId, events>>
    /\ UNCHANGED <<frontVars, callerVars>>

\* processHttpsRequest, lines 527-689: persist the pending row and issue the
\* upstream request.
forwardHttps(w, e) ==
    LET req == w.ex[e].req[1]
        w1 == saveRequest(w, [timestamp |-> e, method |-> req.method,
                              url |-> req.url,
                              status |-> 0, requestBody |-> OrNull(req.body),
                              responseBody |-> Null, size |-> 0])
    IN  [w1 EXCEPT !.ex[e] = [@ EXCEPT
            !.pc = "upstream",
            !.rowId = w1.lastRowId,
            !.upstream = Append(@,
                [method |-> req.method,
                 headers |-> (req.headers \ {"proxy-connection"}) \cup {"host"},
                 body |-> req.body])]]

\* processHttpsRequest for the request `tls` of exchange e: answer with a
\* mock (after the rule's delay, if it has one) or persist and forward. No
\* breakpoint is consulted.
processHttpsRequest(w0, e, tls) ==
    LET req == [method |-> tls.method,
                url |-> Url("https", tls.hostname, tls.path),
                headers |-> tls.headers, body |-> tls.body]
        rule == findMatchingRule(rules, req.method, req.url)
        w == [w0 EXCEPT !.ex[e] = [@ EXCEPT !.path = "mitm", !.req = <<req>>]]
    IN  IF rule # 0
        THEN IF rules[rule].delay > 0
             THEN [w EXCEPT !.ex[e] = [@ EXCEPT
                       !.pc = "mockDelay", !.rule = <<rules[rule]>>]]
             ELSE sendMock([w EXCEPT !.ex[e].rule = <<rules[rule]>>], e)
        ELSE forwardHttps(w, e)

\* processHttpsRequest, called for a request parsed off an intercepted TLS
\* connection to tls.hostname (port 443).
HttpsRequest(e, tls) ==
    /\ Arrives(e)
    /\ proxyConfig # <<>> /\ proxyConfig[1].enableHttps
    /\ Apply(processHttpsRequest(World, e, tls))
    /\ UNCHANGED <<config, pendingRequests, timers, hits, rules>>
    /\ UNCHANGED <<frontVars, callerVars>>

\* parseRequest() in handleTlsConnection: <<>> for null when the buffer holds
\* no end of headers, else the head and where it ends.
parseRequest(buffer) ==
    LET ends == {i \in DOMAIN buffer : buffer[i].unit = "head"}
    IN  IF ends = {} THEN <<>>
        ELSE LET headerEnd == CHOOSE i \in ends : \A j \in ends : i <= j
             IN  <<[head |-> buffer[headerEnd], headerEnd |-> headerEnd]>>

\* tlsSocket 'data' in handleTlsConnection, for a chunk of n units: the chunk
\* is appended to the buffer; if the buffer then holds a whole request, that
\* request is cut off its front and given to processHttpsRequest.
TlsChunk(n) ==
    /\ n \in 1..(Len(tlsSocket.incoming) - tlsSocket.read)
    /\ proxyConfig # <<>> /\ proxyConfig[1].enableHttps
    /\ LET chunk == SubSeq(tlsSocket.incoming, tlsSocket.read + 1,
                           tlsSocket.read + n)
           buffer == tlsSocket.buffer \o chunk
           parsed == parseRequest(buffer)
           totalLength == parsed[1].headerEnd + parsed[1].head.contentLength
       IN  IF parsed = <<>> \/ Len(buffer) < totalLength
           THEN /\ tlsSocket' = [tlsSocket EXCEPT !.read = @ + n,
                                                  !.buffer = buffer]
                /\ UNCHANGED <<rows, lastRowId, events, ex, promises>>
           ELSE LET head == parsed[1].head
                    body == SubSeq(buffer, parsed[1].headerEnd + 1, totalLength)
                IN  /\ tlsSocket' =
                          [tlsSocket EXCEPT
                             !.read = @ + n,
                             !.buffer = SubSeq(buffer, totalLength + 1,
                                               Len(buffer))]
                    /\ \E e \in Exchanges :
                          /\ Arrives(e)
                          /\ Apply(processHttpsRequest(World, e,
                                 [hostname |-> tlsSocket.hostname,
                                  method |-> head.method, path |-> head.path,
                                  headers |-> head.headers,
                                  body |-> IF body = <<>> THEN ""
                                           ELSE body[1].byte]))
    /\ UNCHANGED <<config, pendingRequests, timers, hits, rules>>
    /\ UNCHANGED <<frontVars, requestIdCounter, sent, answer, controller,
                   mockVars, listeners,
                   refused>>

\* https.request's response callback: the body is buffered, nothing is
\* written to the client yet.
HttpsResponse(e, res) ==
    /\ ex[e].path = "mitm" /\ ex[e].pc = "upstream"
    /\ ex' = [ex EXCEPT ![e] = [@ EXCEPT !.pc = "streaming", !.res = <<res>>]]
    /\ UNCHANGED <<config, pendingRequests, promises, timers, hits, rules,
                   rows, lastRowId, events>>
    /\ UNCHANGED <<frontVars, callerVars>>

\* HttpsResponseEnd emitting 'request:complete' before it updates the row.
HttpsResponseEndEmitsFirst(e, writable) ==
    /\ ex[e].path = "mitm" /\ ex[e].pc = "streaming"
    /\ LET res == ex[e].res[1]
           w1 == emitComplete(World, e, ex[e].rowId)
           w2 == updateResponse(w1, ex[e].rowId, responseData(res))
       IN  Apply([w2 EXCEPT !.ex[e] = [@ EXCEPT
                    !.pc = "ended",
                    !.client = IF writable
                               THEN Append(@, [status |-> res.status,
                                        contentLength |-> byteLength(res.body),
                                        body |-> res.body])
                               ELSE @]])
    /\ UNCHANGED <<config, pendingRequests, timers, hits, rules>>
    /\ UNCHANGED <<frontVars, callerVars>>

\* proxyRes 'end' in processHttpsRequest: the row is updated and announced,
\* then, if the client socket is still writable, the head (the origin's
\* headers but transfer-encoding, then a Content-Length of the buffer's length)
\* and the buffer as read are written to it.
HttpsResponseEnd(e, writable) ==
    /\ ex[e].path = "mitm" /\ ex[e].pc = "streaming"
    /\ LET res == ex[e].res[1]
           w1 == updateResponse(World, ex[e].rowId, responseData(res))
           w2 == emitComplete(w1, e, ex[e].rowId)
       IN  Apply([w2 EXCEPT !.ex[e] = [@ EXCEPT
                    !.pc = "ended",
                    !.client = IF writable
                               THEN Append(@, [status |-> res.status,
                                        contentLength |-> byteLength(res.body),
                                        body |-> res.body])
                               ELSE @]])
    /\ UNCHANGED <<config, pendingRequests, timers, hits, rules>>
    /\ UNCHANGED <<frontVars, callerVars>>

\* proxyReq 'error' in processHttpsRequest (see HttpError for when).
HttpsError(e, msg) ==
    /\ ex[e].path = "mitm"
    /\ ex[e].pc \in {"upstream", "streaming", "ended"}
    /\ ~ex[e].errored
    /\ LET w1 == updateResponse(World, ex[e].rowId,
                    [status |-> 502, responseBody |-> msg, size |-> 0])
       IN  Apply([w1 EXCEPT !.ex[e] = [@ EXCEPT
                    !.errored = TRUE,
                    !.pc = IF ex[e].pc = "streaming" THEN "streaming" ELSE "done",
                    !.client = Append(@, [status |-> 502, body |-> ""])]])
    /\ UNCHANGED <<config, pendingRequests, timers, hits, rules>>
    /\ UNCHANGED <<frontVars, callerVars>>

\* handleWebSocketUpgrade: the server's 'upgrade' callback.
WebSocketUpgrade(e, req) ==
    /\ Arrives(e)
    /\ LET w == [World EXCEPT !.ex[e] = [@ EXCEPT !.path = "ws", !.req = <<req>>]]
           w1 == saveRequest(w, [timestamp |-> e, method |-> "WEBSOCKET",
                                 url |-> req.url,
                                 status |-> 0, requestBody |-> "",
                                 responseBody |-> Null, size |-> 0])
       IN  Apply([w1 EXCEPT !.ex[e] = [@ EXCEPT
                    !.pc = "upstream",
                    !.rowId = w1.lastRowId,
                    !.upstream = Append(@, [method |-> "GET",
                                            headers |-> req.headers,
                                            body |-> ""])]])
    /\ UNCHANGED <<config, pendingRequests, timers, hits, rules>>
    /\ UNCHANGED <<frontVars, callerVars>>

\* targetRequest 'upgrade' in handleWebSocketUpgrade.
WebSocketUpgraded(e) ==
    /\ ex[e].path = "ws" /\ ex[e].pc = "upstream"
    /\ LET w1 == updateResponse(World, ex[e].rowId,
                    [status |-> 101,
                     responseBody |-> "[WebSocket Connection Established]",
                     size |-> 0])
           w2 == emitComplete(w1, e, ex[e].rowId)
       IN  Apply([w2 EXCEPT !.ex[e] = [@ EXCEPT
                    !.pc = "done",
                    !.client = Append(@, [status |-> 101, body |-> ""])]])
    /\ UNCHANGED <<config, pendingRequests, timers, hits, rules>>
    /\ UNCHANGED <<frontVars, callerVars>>

\* targetRequest 'error' in handleWebSocketUpgrade: Node detaches the socket
\* from the request when it upgrades, so the error comes instead of 'upgrade'.
WebSocketError(e, msg) ==
    /\ ex[e].path = "ws" /\ ex[e].pc = "upstream"
    /\ LET w1 == updateResponse(World, ex[e].rowId,
                    [status |-> 502, responseBody |-> msg, size |-> 0])
       IN  Apply([w1 EXCEPT !.ex[e] = [@ EXCEPT
                    !.errored = TRUE,
                    !.pc = "done",
                    !.client = Append(@, [status |-> 502, body |-> ""])]])
    /\ UNCHANGED <<config, pendingRequests, timers, hits, rules>>
    /\ UNCHANGED <<frontVars, callerVars>>

\* ------------------------------------------------- ProxyServer, the front

\* A socket is "open", then "closing" once it is destroyed or has failed,
\* then "closed" once its 'close' event has been emitted.
NoPeer == "none"

NewConnection(h) ==
    [server |-> h, clientSocket |-> "open", peer |-> NoPeer,
     peerSocket |-> NoPeer, hostname |-> Null, wrote |-> <<>>,
     secure |-> FALSE, requests |-> <<>>]

\* start(config): refuses while running; otherwise stores the config, makes
\* a new http.Server the current one and asks it to listen.
Start(cfg) ==
    /\ ~running
    /\ Len(servers) < MaxStarts
    /\ proxyConfig' = <<cfg>>
    /\ servers' = Append(servers, "binding")
    /\ server' = Len(servers) + 1
    /\ UNCHANGED <<running, certCache, activeSockets, stops, conns, minted>>
    /\ UNCHANGED <<exchangeVars, callerVars>>

\* The frame of a call that start() or stop() refuses.
RefusalFrame ==
    /\ UNCHANGED <<certCache, activeSockets, servers, stops, conns, minted>>
    /\ UNCHANGED exchangeVars
    /\ UNCHANGED <<requestIdCounter, sent, answer, controller, tlsSocket,
                   mockVars, listeners>>

\* start(config) with the config stored before the running flag is tested.
StartWhileRunningStoresConfig(cfg) ==
    /\ running
    /\ refused' = "start: Proxy server is already running"
    /\ proxyConfig' = <<cfg>>
    /\ UNCHANGED <<running, server>>
    /\ RefusalFrame

\* start(config) while this.running: throws before anything is assigned.
StartWhileRunning(cfg) ==
    /\ running
    /\ refused' = "start: Proxy server is already running"
    /\ UNCHANGED <<running, server, proxyConfig>>
    /\ RefusalFrame

\* stop() with no server or while not running: returns at once.
StopWhileNotRunning ==
    /\ server = 0 \/ ~running
    /\ refused' = "stop"
    /\ UNCHANGED <<running, server, proxyConfig>>
    /\ RefusalFrame

\* The listen callback of server h: the port was free.
listen(h) ==
    /\ h \in DOMAIN servers
    /\ servers[h] = "binding"
    /\ \A g \in DOMAIN servers : servers[g] # "listening"
    /\ servers' = [servers EXCEPT ![h] = "listening"]
    /\ running' = TRUE
    /\ UNCHANGED <<server, proxyConfig, certCache, activeSockets, stops,
                   conns, minted>>
    /\ UNCHANGED exchangeVars

\* start() resolves for a caller that does nothing more.
Listening(h) == listen(h) /\ UNCHANGED callerVars

\* The PROXY_START handler after `await proxyServer.start(config)`: it adds
\* one more 'request:complete' listener to the proxy, in the same turn as the
\* listen callback that resolved the call. No handler removes a listener.
ProxyStart(h) ==
    /\ listen(h)
    /\ listeners' = Append(listeners, Len(events))
    /\ UNCHANGED <<requestIdCounter, sent, answer, controller, tlsSocket,
                   mockVars, refused>>

\* How many times the renderer is sent REQUEST_CAPTURED for the k-th
\* 'request:complete' event: emit calls every listener registered before it.
RequestCaptured(k) ==
    Cardinality({l \in DOMAIN listeners : listeners[l] < k})

\* The 'error' handler of server h: listen failed, start() rejects.
ListenError(h) ==
    /\ h \in DOMAIN servers
    /\ servers[h] = "binding"
    /\ servers' = [servers EXCEPT ![h] = "failed"]
    /\ UNCHANGED <<running, server, proxyConfig, certCache, activeSockets,
                   stops, conns, minted>>
    /\ UNCHANGED <<exchangeVars, callerVars>>

\* The 'connection' handler of server h: track the accepted socket.
Connection(h) ==
    /\ h \in DOMAIN servers
    /\ servers[h] = "listening"
    /\ Len(conns) < MaxSockets
    /\ conns' = Append(conns, NewConnection(h))
    /\ activeSockets' = activeSockets \cup {<<"clientSocket", Len(conns) + 1>>}
    /\ UNCHANGED <<running, server, proxyConfig, certCache, servers, stops,
                   minted>>
    /\ UNCHANGED <<exchangeVars, callerVars>>

\* The 'close' handler of a tracked client socket.
ClientSocketClose(i) ==
    /\ i \in DOMAIN conns
    /\ conns[i].clientSocket \in {"open", "closing"}
    /\ conns' = [conns EXCEPT ![i].clientSocket = "closed"]
    /\ activeSockets' = activeSockets \ {<<"clientSocket", i>>}
    /\ UNCHANGED <<running, server, proxyConfig, certCache, servers, stops,
                   minted>>
    /\ UNCHANGED <<exchangeVars, callerVars>>

\* The 'close' handler of a tracked tunnel or TLS socket.
PeerSocketClose(i) ==
    /\ i \in DOMAIN conns
    /\ conns[i].peerSocket \in {"open", "closing"}
    /\ conns' = [conns EXCEPT ![i].peerSocket = "closed"]
    /\ activeSockets' = activeSockets \ {<<conns[i].peer, i>>}
    /\ UNCHANGED <<running, server, proxyConfig, certCache, servers, stops,
                   minted>>
    /\ UNCHANGED <<exchangeVars, callerVars>>

\* certManager.generateServerCert(hostname) when it returns: a fresh key
\* pair and certificate on every call.
generateServerCert(hostname) ==
    [hostname |-> hostname, serial |-> minted[hostname].returned + 1]

\* The factory's ledger after a call for hostname that returns or throws.
Invoked(hostname, generated) ==
    [minted EXCEPT ![hostname].invoked = @ + 1,
                   ![hostname].returned = IF generated THEN @ + 1 ELSE @]

\* handleMitmConnect with the cache lookup lost: a certificate is generated
\* on every CONNECT.
handleMitmConnectNoLookup(i, hostname, generated) ==
    IF generated
    THEN /\ minted' = Invoked(hostname, TRUE)
         /\ certCache' = [certCache EXCEPT
                             ![hostname] = <<generateServerCert(hostname)>>]
         /\ conns' = [conns EXCEPT ![i].peer = "tlsSocket",
                                   ![i].peerSocket = "open",
                                   ![i].hostname = hostname,
                                   ![i].wrote = Append(@, Established)]
         /\ activeSockets' = activeSockets \cup {<<"tlsSocket", i>>}
    ELSE /\ minted' = Invoked(hostname, FALSE)
         /\ conns' = [conns EXCEPT ![i].clientSocket = "closing",
                                   ![i].hostname = hostname,
                                   ![i].wrote = Append(@, BadGateway)]
         /\ UNCHANGED <<certCache, activeSockets>>

\* handleMitmConnect writing "200 Connection Established" before it has a
\* certificate.
handleMitmConnectEstablishesFirst(i, hostname, generated) ==
    IF certCache[hostname] # <<>> \/ generated
    THEN /\ minted' = IF certCache[hostname] = <<>>
                      THEN Invoked(hostname, TRUE) ELSE minted
         /\ certCache' = IF certCache[hostname] = <<>>
                         THEN [certCache EXCEPT
                                  ![hostname] = <<generateServerCert(hostname)>>]
                         ELSE certCache
         /\ conns' = [conns EXCEPT ![i].peer = "tlsSocket",
                                   ![i].peerSocket = "open",
                                   ![i].hostname = hostname,
                                   ![i].wrote = Append(@, Established)]
         /\ activeSockets' = activeSockets \cup {<<"tlsSocket", i>>}
    ELSE /\ minted' = Invoked(hostname, FALSE)
         /\ conns' = [conns EXCEPT ![i].clientSocket = "closing",
                                   ![i].hostname = hostname,
                                   ![i].wrote = <<Established, BadGateway>>]
         /\ UNCHANGED <<certCache, activeSockets>>

\* handleMitmConnect: take the host's certificate from the cache or generate
\* and cache it; `generated` says whether the factory returns or throws. On
\* a throw the client gets 502 and nothing else happens; otherwise it gets
\* "200 Connection Established" and a tracked TLS socket wraps its socket.
handleMitmConnect(i, hostname, generated) ==
    IF certCache[hostname] # <<>> \/ generated
    THEN /\ minted' = IF certCache[hostname] = <<>>
                      THEN Invoked(hostname, TRUE) ELSE minted
         /\ certCache' = IF certCache[hostname] = <<>>
                         THEN [certCache EXCEPT
                                  ![hostname] = <<generateServerCert(hostname)>>]
                         ELSE certCache
         /\ conns' = [conns EXCEPT ![i].peer = "tlsSocket",
                                   ![i].peerSocket = "open",
                                   ![i].hostname = hostname,
                                   ![i].wrote = Append(@, Established)]
         /\ activeSockets' = activeSockets \cup {<<"tlsSocket", i>>}
    ELSE /\ minted' = Invoked(hostname, FALSE)
         /\ conns' = [conns EXCEPT ![i].clientSocket = "closing",
                                   ![i].hostname = hostname,
                                   ![i].wrote = Append(@, BadGateway)]
         /\ UNCHANGED <<certCache, activeSockets>>

\* handleConnect: a CONNECT hostname:port on client connection i. Without
\* HTTPS interception a tracked socket to the origin is opened; with it the
\* connection is intercepted.
handleConnect(i, hostname, generated) ==
    /\ i \in DOMAIN conns
    /\ conns[i].clientSocket = "open"
    /\ conns[i].hostname = Null
    /\ IF ~proxyConfig[1].enableHttps
       THEN /\ conns' = [conns EXCEPT ![i].peer = "serverSocket",
                                      ![i].peerSocket = "open",
                                      ![i].hostname = hostname]
            /\ activeSockets' = activeSockets \cup {<<"serverSocket", i>>}
            /\ UNCHANGED <<minted, certCache>>
       ELSE handleMitmConnect(i, hostname, generated)
    /\ UNCHANGED <<running, server, proxyConfig, servers, stops>>
    /\ UNCHANGED <<exchangeVars, callerVars>>

\* The connect callback of a blind tunnel's server socket.
TunnelConnected(i) ==
    /\ i \in DOMAIN conns
    /\ conns[i].peer = "serverSocket"
    /\ conns[i].peerSocket = "open"
    /\ conns[i].wrote = <<>>
    /\ conns' = [conns EXCEPT ![i].wrote = Append(@, Established)]
    /\ UNCHANGED <<running, server, proxyConfig, certCache, activeSockets,
                   servers, stops, minted>>
    /\ UNCHANGED <<exchangeVars, callerVars>>

\* The 'error' handler of a blind tunnel's server socket.
TunnelError(i) ==
    /\ i \in DOMAIN conns
    /\ conns[i].peer = "serverSocket"
    /\ conns[i].peerSocket = "open"
    /\ conns' = [conns EXCEPT ![i].peerSocket = "closing",
                              ![i].clientSocket =
                                  IF @ = "open" THEN "closing" ELSE @,
                              ![i].wrote = Append(@, BadGateway)]
    /\ UNCHANGED <<running, server, proxyConfig, certCache, activeSockets,
                   servers, stops, minted>>
    /\ UNCHANGED <<exchangeVars, callerVars>>

\* The 'secure' handler of a TLS socket: the handshake is done and
\* handleTlsConnection starts listening for data.
TlsSecure(i) ==
    /\ i \in DOMAIN conns
    /\ conns[i].peer = "tlsSocket"
    /\ conns[i].peerSocket = "open"
    /\ ~conns[i].secure
    /\ conns' = [conns EXCEPT ![i].secure = TRUE]
    /\ UNCHANGED <<running, server, proxyConfig, certCache, activeSockets,
                   servers, stops, minted>>
    /\ UNCHANGED <<exchangeVars, callerVars>>

\* The 'data' handler of handleTlsConnection for a chunk that completes the
\* request `tls` in the buffer: the request is cut off the buffer and handed
\* to processHttpsRequest with this connection's TLS socket. The connection
\* keeps the exchanges it has dispatched, in order.
TlsData(i, e, tls) ==
    /\ i \in DOMAIN conns
    /\ conns[i].peer = "tlsSocket"
    /\ conns[i].peerSocket = "open"
    /\ conns[i].secure
    /\ conns[i].hostname = tls.hostname
    /\ Arrives(e)
    /\ Apply(processHttpsRequest(World, e, tls))
    /\ conns' = [conns EXCEPT ![i].requests = Append(@, e)]
    /\ UNCHANGED <<config, pendingRequests, timers, hits, rules>>
    /\ UNCHANGED <<running, server, proxyConfig, certCache, activeSockets,
                   servers, stops, minted, callerVars>>

\* socket.destroy() on every socket of the set S.
destroyAll(cs, S) ==
    [i \in DOMAIN cs |->
        [cs[i] EXCEPT
            !.clientSocket = IF <<"clientSocket", i>> \in S /\ @ = "open"
                             THEN "closing" ELSE @,
            !.peerSocket = IF <<cs[i].peer, i>> \in S /\ @ = "open"
                           THEN "closing" ELSE @]]

\* stop() with the 2-second timer never armed: only the close callback can
\* resolve the call.
StopWithoutTimer ==
    /\ server # 0
    /\ running
    /\ Len(stops) < MaxStops
    /\ conns' = destroyAll(conns, activeSockets)
    /\ activeSockets' = {}
    /\ servers' = [servers EXCEPT ![server] = "closing"]
    /\ stops' = Append(stops, [server |-> server, timer |-> FALSE,
                               callback |-> TRUE, resolved |-> FALSE])
    /\ UNCHANGED <<running, server, proxyConfig, certCache, minted>>
    /\ UNCHANGED <<exchangeVars, callerVars>>

\* stop(): returns at once unless there is a server and it is running;
\* otherwise destroys and forgets every tracked socket, arms the 2-second
\* timer and calls server.close(callback).
Stop ==
    /\ server # 0
    /\ running
    /\ Len(stops) < MaxStops
    /\ conns' = destroyAll(conns, activeSockets)
    /\ activeSockets' = {}
    /\ servers' = [servers EXCEPT ![server] = "closing"]
    /\ stops' = Append(stops, [server |-> server, timer |-> TRUE,
                               callback |-> TRUE, resolved |-> FALSE])
    /\ UNCHANGED <<running, server, proxyConfig, certCache, minted>>
    /\ UNCHANGED <<exchangeVars, callerVars>>

\* The 2-second timer of stop() call k fires.
StopTimeout(k) ==
    /\ k \in DOMAIN stops
    /\ stops[k].timer
    /\ running' = FALSE
    /\ server' = 0
    /\ stops' = [stops EXCEPT ![k].timer = FALSE, ![k].resolved = TRUE]
    /\ UNCHANGED <<proxyConfig, certCache, activeSockets, servers, conns,
                   minted>>
    /\ UNCHANGED <<exchangeVars, callerVars>>

\* Server h emits 'close' (it no longer listens and its connections have
\* all closed): the callback of every stop() call that closed it runs,
\* whether or not that call's timer has fired before.
CloseCallback(h) ==
    /\ h \in DOMAIN servers
    /\ servers[h] = "closing"
    /\ \A i \in DOMAIN conns :
          conns[i].server = h => conns[i].clientSocket = "closed"
    /\ servers' = [servers EXCEPT ![h] = "closed"]
    /\ running' = FALSE
    /\ server' = 0
    /\ stops' = [k \in DOMAIN stops |->
                    IF stops[k].server = h /\ stops[k].callback
                    THEN [stops[k] EXCEPT !.timer = FALSE, !.callback = FALSE,
                                          !.resolved = TRUE]
                    ELSE stops[k]]
    /\ UNCHANGED <<proxyConfig, certCache, activeSockets, conns, minted>>
    /\ UNCHANGED <<exchangeVars, callerVars>>

\* A plain-HTTP request arrives on an open client connection that carries
\* no tunnel.
RequestOnConnection(i, e, req) ==
    /\ i \in DOMAIN conns
    /\ conns[i].clientSocket = "open"
    /\ conns[i].peer = NoPeer
    /\ HttpRequest(e, req)

\* ----------------------------------------------- TrafficStorage, the table

\* x LIKE '%q%' for the search queries and content types of Filters.
Like(q, text) ==
    CASE q = "a.test" -> text \in {"http://a.test/p", "a.test"}
      [] q = "json" -> text = "application/json"
      [] OTHER -> FALSE

\* The url, host and path columns of a row, as text.
UrlText(u) == IF u.host = "a.test" THEN "http://a.test/p" ELSE "http://b.test/q"

\* url LIKE ? OR host LIKE ? OR path LIKE ?
SearchMatches(q, row) ==
    \/ Like(q, UrlText(row.url))
    \/ Like(q, row.url.host)
    \/ Like(q, row.url.path)

\* The WHERE clause getRequests builds from the filter.
Matches(row, f) ==
    /\ f.searchQuery # "" => SearchMatches(f.searchQuery, row)
    /\ f.methods # {} => row.method \in f.methods
    /\ f.statusCodes # {} => row.status \in f.statusCodes
    /\ f.hosts # {} => row.url.host \in f.hosts
    /\ f.contentTypes # {} =>
          \E ct \in f.contentTypes : Like(ct, row.contentType)
    /\ f.dateRange # <<>> =>
          /\ row.timestamp >= f.dateRange[1].start
          /\ row.timestamp <= f.dateRange[1].end

\* ORDER BY timestamp DESC: every order of the ids S by descending
\* timestamp. SQL leaves the order of rows with equal timestamps open.
Orderings(rs, S) ==
    {s \in [1..Cardinality(S) -> S] :
        /\ \A i, j \in DOMAIN s : i # j => s[i] # s[j]
        /\ \A i, j \in DOMAIN s :
              i < j => rs[s[i]].timestamp >= rs[s[j]].timestamp}

\* LIMIT ? OFFSET ?, added when filter.limit is set.
Page(s, f) ==
    IF f.limit > 0
    THEN SubSeq(s, f.offset + 1,
                IF f.offset + f.limit < Len(s) THEN f.offset + f.limit
                ELSE Len(s))
    ELSE s

\* rows.map(this.mapRowToRequest)
mapRows(selected) ==
    IF \E i \in DOMAIN selected : mapRowToRequest(selected[i]).threw
    THEN [threw |-> TRUE, value |-> <<>>]
    ELSE [threw |-> FALSE,
          value |-> [i \in DOMAIN selected |->
                        mapRowToRequest(selected[i]).value[1]]]

\* getRequests(filter): the outcomes the call may have, one for each result
\* the query may return.
getRequests(rs, f) ==
    {mapRows(Page([i \in DOMAIN s |-> rs[s[i]]], f)) :
        s \in Orderings(rs, {id \in DOMAIN rs : Matches(rs[id], f)})}

\* getRequestCount(filter): COUNT(*) with the search query as only condition.
getRequestCount(rs, f) ==
    Cardinality({id \in DOMAIN rs :
                    f.searchQuery # "" => SearchMatches(f.searchQuery, rs[id])})

\* saveRequest(request), called by a handler.
SaveRequest(request) ==
    /\ \E s0 \in StoreStarts : s0 <= lastRowId /\ lastRowId < s0 + MaxRows
    /\ Apply(saveRequest(World, request))
    /\ UNCHANGED <<config, pendingRequests, timers, hits, rules>>
    /\ UNCHANGED <<frontVars, callerVars>>

\* deleteRequest(id)
DeleteRequest(id) ==
    /\ rows' = [i \in DOMAIN rows \ {id} |-> rows[i]]
    /\ UNCHANGED <<config, pendingRequests, promises, timers, hits, rules,
                   lastRowId, ex, events>>
    /\ UNCHANGED <<frontVars, callerVars>>

\* clearAll(): DELETE FROM requests; VACUUM
ClearAll ==
    /\ rows' = [i \in {} |-> rows[i]]
    /\ UNCHANGED <<config, pendingRequests, promises, timers, hits, rules,
                   lastRowId, ex, events>>
    /\ UNCHANGED <<frontVars, callerVars>>

\* deleteOlderThan(hours), with cutoff = Date.now() - hours * 3600000.
DeleteOlderThan(cutoff) ==
    /\ rows' = [i \in {j \in DOMAIN rows : rows[j].timestamp >= cutoff} |->
                   rows[i]]
    /\ UNCHANGED <<config, pendingRequests, promises, timers, hits, rules,
                   lastRowId, ex, events>>
    /\ UNCHANGED <<frontVars, callerVars>>

\* A caller reads one row: getRequestById(id).
GetRequestById(id) ==
    /\ LET outcome == getRequestById(World, id)
       IN  answer' = [call |-> "getRequestById", threw |-> outcome.threw,
                      value |-> outcome.value]
    /\ UNCHANGED <<exchangeVars, frontVars, requestIdCounter, sent, controller,
                   tlsSocket,
                   mockVars, listeners,
                   refused>>

\* A caller lists rows: getRequests(filter).
GetRequests(f) ==
    /\ \E outcome \in getRequests(rows, f) :
          answer' = [call |-> "getRequests", threw |-> outcome.threw,
                     value |-> outcome.value]
    /\ UNCHANGED <<exchangeVars, frontVars, requestIdCounter, sent, controller,
                   tlsSocket,
                   mockVars, listeners,
                   refused>>

\* ------------------------------------------------- MockService, rule by rule

\* The values saveMockRule binds for `rule`, stamped with Date.now().
ruleRow(rule, at) ==
    [id |-> rule.id, enabled |-> IF rule.enabled THEN 1 ELSE 0,
     method |-> IF rule.method = "" THEN Null ELSE rule.method,
     urlPattern |-> rule.urlPattern, responseStatus |-> rule.responseStatus,
     responseBody |-> rule.responseBody, delay |-> rule.delay,
     createdAt |-> at]

\* The rule getMockRules makes of a row.
rowRule(row) ==
    [id |-> row.id, enabled |-> row.enabled = 1,
     method |-> IF row.method = Null THEN "" ELSE row.method,
     urlPattern |-> row.urlPattern, responseStatus |-> row.responseStatus,
     responseBody |-> row.responseBody, delay |-> row.delay]

\* INSERT OR REPLACE INTO mock_rules ... created_at = Date.now()
saveMockRule(table, rule, at) ==
    [i \in DOMAIN table \cup {rule.id} |->
        IF i = rule.id THEN ruleRow(rule, at) ELSE table[i]]

\* SELECT * FROM mock_rules ORDER BY created_at DESC: the orders the rows may
\* come in (rows of one created_at in any order).
getMockRules(table) ==
    LET ids == DOMAIN table
        n == Cardinality(ids)
    IN  { order \in [1..n -> ids] :
            /\ \A i, j \in 1..n : i # j => order[i] # order[j]
            /\ \A i, j \in 1..n :
                  i < j => table[order[i]].createdAt >= table[order[j]].createdAt }

\* this.rules.get(id): the position of the rule in the Map, 0 when absent.
rulesGet(id) ==
    IF \E i \in DOMAIN rules : rules[i].id = id
    THEN CHOOSE i \in DOMAIN rules : rules[i].id = id
    ELSE 0

\* { ...rule, ...updates }: an id among the updates replaces the rule's.
MergedTakingId(rule, updates, id) ==
    [f \in DOMAIN rule |->
        IF f \in DOMAIN updates THEN updates[f] ELSE rule[f]]

\* { ...rule, ...updates, id }
Merged(rule, updates, id) ==
    [f \in DOMAIN rule |->
        IF f = "id" THEN id
        ELSE IF f \in DOMAIN updates THEN updates[f] ELSE rule[f]]

\* What a call of the service gave its caller.
Returned(call, threw) == [call |-> call, threw |-> threw, value |-> <<>>]

\* The store and the clock stay as they are.
MockFrame ==
    /\ UNCHANGED <<config, pendingRequests, promises, timers, hits, rows,
                   lastRowId, ex, events>>
    /\ UNCHANGED <<frontVars, requestIdCounter, sent, controller, tlsSocket,
                   listeners, refused>>

\* addRule(rule): the rule gets a fresh id, enters the Map and is saved at
\* now + tick.
AddRule(rule, tick) ==
    /\ uuids < MaxRules /\ now + tick <= MaxClock
    /\ LET newRule == [id |-> uuids + 1] @@ rule
       IN  /\ rules' = Append(rules, newRule)
           /\ mockRules' = saveMockRule(mockRules, newRule, now + tick)
    /\ uuids' = uuids + 1
    /\ now' = now + tick
    /\ answer' = Returned("addRule", FALSE)
    /\ MockFrame

\* updateRule(id, updates), called as `call`.
updateRule(call, id, updates, tick) ==
    LET at == rulesGet(id)
    IN  IF at = 0
        THEN /\ answer' = Returned(call, TRUE)
             /\ UNCHANGED <<rules, mockRules, now, uuids>>
        ELSE LET updated == Merged(rules[at], updates, id)
             IN  /\ rules' = [rules EXCEPT ![at] = updated]
                 /\ mockRules' = saveMockRule(mockRules, updated, now + tick)
                 /\ now' = now + tick
                 /\ answer' = Returned(call, FALSE)
                 /\ UNCHANGED uuids

UpdateRule(id, updates, tick) ==
    /\ now + tick <= MaxClock
    /\ updateRule("updateRule", id, updates, tick)
    /\ MockFrame

\* toggleRule(id, enabled)
ToggleRule(id, enabled, tick) ==
    /\ now + tick <= MaxClock
    /\ updateRule("toggleRule", id, [enabled |-> enabled], tick)
    /\ MockFrame

\* deleteRule(id)
DeleteRule(id) ==
    /\ IF rulesGet(id) = 0
       THEN /\ answer' = Returned("deleteRule", TRUE)
            /\ UNCHANGED <<rules, mockRules>>
       ELSE /\ rules' = SelectSeq(rules, LAMBDA r : r.id # id)
            /\ mockRules' = [i \in DOMAIN mockRules \ {id} |-> mockRules[i]]
            /\ answer' = Returned("deleteRule", FALSE)
    /\ UNCHANGED <<now, uuids>>
    /\ MockFrame

\* loadRules(): the Map is cleared and filled in the order of getMockRules.
LoadRules ==
    /\ \E order \in getMockRules(mockRules) :
          rules' = [i \in DOMAIN order |-> rowRule(mockRules[order[i]])]
    /\ answer' = Returned("loadRules", FALSE)
    /\ UNCHANGED <<mockRules, now, uuids>>
    /\ MockFrame

\* --------------------------------------------------------- RequestComposer

\* sendRequest(composedRequest): the id is taken from the private counter and
\* the request is issued; the promise returned is pending.
sendRequest(composedRequest) ==
    /\ requestIdCounter < RequestIdStart + MaxSends
    /\ requestIdCounter' = requestIdCounter + 1
    /\ sent' = Append(sent, [id |-> requestIdCounter,
                             request |-> composedRequest,
                             state |-> "pending", capture |-> <<>>])

SendRequest(composedRequest) ==
    /\ sendRequest(composedRequest)
    /\ UNCHANGED <<exchangeVars, frontVars, answer, controller, tlsSocket,
                   mockVars, listeners,
                   refused>>

\* replayRequest(originalRequest), for a request read from the store: a
\* composed request is built from its request side and sent.
ReplayRequest(id) ==
    /\ id \in DOMAIN rows
    /\ ~getRequestById(World, id).threw
    /\ LET originalRequest == getRequestById(World, id).value[1]
       IN  sendRequest([method |-> originalRequest.method,
                        url |-> originalRequest.url,
                        headers |-> originalRequest.requestHeaders,
                        body |-> IF originalRequest.requestBody = Null
                                 THEN "" ELSE originalRequest.requestBody])
    /\ UNCHANGED <<exchangeVars, frontVars, answer, controller, tlsSocket,
                   mockVars, listeners,
                   refused>>

\* SendResponseEnd saving the capture it resolves with.
SendResponseEndSavesCapture(k, res) ==
    /\ k \in DOMAIN sent
    /\ sent[k].state = "pending"
    /\ LET capturedRequest ==
               [id |-> sent[k].id, method |-> sent[k].request.method,
                url |-> sent[k].request.url, status |-> res.status,
                requestHeaders |-> sent[k].request.headers,
                requestBody |-> OrNull(sent[k].request.body),
                responseBody |-> OrNull(res.body)]
       IN  /\ sent' = [sent EXCEPT ![k].state = "resolved",
                                   ![k].capture = <<capturedRequest>>]
           /\ Apply(saveRequest(World,
                 [timestamp |-> 1, method |-> capturedRequest.method,
                  url |-> capturedRequest.url,
                  status |-> capturedRequest.status, contentType |-> "",
                  requestHeaders |-> capturedRequest.requestHeaders,
                  responseHeaders |-> {},
                  requestBody |-> capturedRequest.requestBody,
                  responseBody |-> capturedRequest.responseBody]))
    /\ UNCHANGED <<config, pendingRequests, timers, hits, rules>>
    /\ UNCHANGED <<frontVars, requestIdCounter, answer, controller, tlsSocket,
                   mockVars, listeners,
                   refused>>

\* incomingMessage 'end' of call k: its promise resolves with the capture.
SendResponseEnd(k, res) ==
    /\ k \in DOMAIN sent
    /\ sent[k].state = "pending"
    /\ LET capturedRequest ==
               [id |-> sent[k].id, method |-> sent[k].request.method,
                url |-> sent[k].request.url, status |-> res.status,
                requestHeaders |-> sent[k].request.headers,
                requestBody |-> OrNull(sent[k].request.body),
                responseBody |-> OrNull(res.body)]
       IN  sent' = [sent EXCEPT ![k].state = "resolved",
                                ![k].capture = <<capturedRequest>>]
    /\ UNCHANGED <<exchangeVars, frontVars, requestIdCounter, answer,
                   controller, tlsSocket,
                   mockVars, listeners,
                   refused>>

\* clientRequest 'error' of call k (or new URL throwing): its promise rejects.
SendError(k) ==
    /\ k \in DOMAIN sent
    /\ sent[k].state = "pending"
    /\ sent' = [sent EXCEPT ![k].state = "rejected"]
    /\ UNCHANGED <<exchangeVars, frontVars, requestIdCounter, answer,
                   controller, tlsSocket,
                   mockVars, listeners,
                   refused>>

\* ---------------------------------------------------------- specifications

\* The breakpoint rendezvous on the plain-HTTP leg: requests arrive, are
\* mocked, paused or forwarded, and a controller continues, drops and clears
\* pauses while their watchdogs run. The origin stays silent here; its events
\* are those of SpecLegs.
Next ==
    \/ \E e \in Exchanges, req \in ClientRequests : HttpRequest(e, req)
    \/ \E e \in Exchanges : MockDelayElapsed(e)
    \/ \E id \in PauseIds, m \in {<<>>} \cup {<<x>> : x \in Modifications} :
          Continue(id, m)
    \/ \E id \in PauseIds : Drop(id)
    \/ \E id \in PauseIds : Watchdog(id)
    \/ ClearPending

Spec == Init /\ [][Next]_vars

\* The three legs (plain HTTP, intercepted TLS, WebSocket upgrade) with
\* breakpoints switched off: no exchange pauses.
InitLegs == Init /\ ~config.enabled

NextLegs ==
    \/ \E e \in Exchanges, req \in ClientRequests : HttpRequest(e, req)
    \/ \E e \in Exchanges, tls \in TlsRequests : HttpsRequest(e, tls)
    \/ \E e \in Exchanges, req \in UpgradeRequests : WebSocketUpgrade(e, req)
    \/ \E e \in Exchanges : MockDelayElapsed(e)
    \/ \E e \in Exchanges, res \in OriginResponses : HttpResponse(e, res)
    \/ \E e \in Exchanges : HttpResponseEnd(e)
    \/ \E e \in Exchanges, msg \in ErrorMessages : HttpError(e, msg)
    \/ \E e \in Exchanges, res \in OriginResponses : HttpsResponse(e, res)
    \/ \E e \in Exchanges, writable \in BOOLEAN : HttpsResponseEnd(e, writable)
    \/ \E e \in Exchanges, msg \in ErrorMessages : HttpsError(e, msg)
    \/ \E e \in Exchanges : WebSocketUpgraded(e)
    \/ \E e \in Exchanges, msg \in ErrorMessages : WebSocketError(e, msg)
    \/ \E e \in Exchanges : UpstreamClose(e)

SpecLegs == InitLegs /\ [][NextLegs]_vars

\* stop() on a started proxy, with requests pausing at breakpoints: clients
\* connect, send requests that pause, and go away; a controller drops pauses
\* while their watchdogs run; stop() is called, more than once too. The
\* 2-second timer of a stop() call fires unless it is cleared first; nothing
\* obliges a server to emit 'close'.
InitStop ==
    /\ InitTraffic
    /\ config.enabled /\ config.breakOnRequest
    /\ config.urlPattern = NoPattern
    /\ rules = <<>>
    /\ Started
    /\ proxyConfig[1].enableHttps

NextStop ==
    \/ \E h \in 1..MaxStarts : Connection(h)
    \/ \E i \in 1..MaxSockets : ClientSocketClose(i)
    \/ \E i \in 1..MaxSockets, e \in Exchanges, req \in ClientRequests :
          RequestOnConnection(i, e, req)
    \/ \E id \in PauseIds : Drop(id)
    \/ \E id \in PauseIds : Watchdog(id)
    \/ Stop
    \/ \E k \in 1..MaxStops : StopTimeout(k)
    \/ \E h \in 1..MaxStarts : CloseCallback(h)

SpecStop ==
    /\ InitStop
    /\ [][NextStop]_vars
    /\ \A k \in 1..MaxStops : WF_vars(StopTimeout(k))

\* CONNECT handling across restarts: the proxy is started, fails to start,
\* is stopped and started again with HTTPS interception on or off, and
\* clients connect and ask for tunnels to hosts. A stopped server closes
\* once its clients have gone.
InitCert == InitTraffic /\ ~config.enabled /\ rules = <<>> /\ Constructed

NextCert ==
    \/ \E cfg \in ProxyConfigs : Start(cfg)
    \/ \E h \in 1..MaxStarts : Listening(h)
    \/ \E h \in 1..MaxStarts : ListenError(h)
    \/ \E h \in 1..MaxStarts : Connection(h)
    \/ \E i \in 1..MaxSockets, hostname \in Hosts, generated \in BOOLEAN :
          handleConnect(i, hostname, generated)
    \/ \E i \in 1..MaxSockets : ClientSocketClose(i)
    \/ \E i \in 1..MaxSockets : PeerSocketClose(i)
    \/ Stop
    \/ \E h \in 1..MaxStarts : CloseCallback(h)

SpecCert == InitCert /\ [][NextCert]_vars

\* Intercepted connections: clients CONNECT, complete the TLS handshake and
\* send requests, also before the previous one on the connection has been
\* answered; the origin answers or fails. Breakpoints and mock rules are
\* configured in every way.
InitMitm == InitTraffic /\ Started /\ proxyConfig[1].enableHttps

NextMitm ==
    \/ \E h \in 1..MaxStarts : Connection(h)
    \/ \E i \in 1..MaxSockets, hostname \in Hosts :
          handleConnect(i, hostname, TRUE)
    \/ \E i \in 1..MaxSockets : TlsSecure(i)
    \/ \E i \in 1..MaxSockets, e \in Exchanges, tls \in TlsRequests :
          TlsData(i, e, tls)
    \/ \E e \in Exchanges : MockDelayElapsed(e)
    \/ \E e \in Exchanges, res \in OriginResponses : HttpsResponse(e, res)
    \/ \E e \in Exchanges, writable \in BOOLEAN : HttpsResponseEnd(e, writable)
    \/ \E e \in Exchanges, msg \in ErrorMessages : HttpsError(e, msg)
    \/ \E e \in Exchanges : UpstreamClose(e)

SpecMitm == InitMitm /\ [][NextMitm]_vars

\* The request table and the composer: handlers save rows, a user deletes
\* one, all, or the old ones, and sends composed requests. The database file
\* keeps its id sequence from run to run; the composer's counter starts
\* anew with each process.
InitStore ==
    /\ config \in {c \in BreakpointConfigs : ~c.enabled}
    /\ rules = <<>>
    /\ pendingRequests = <<>>
    /\ promises = <<>>
    /\ timers = {}
    /\ hits = <<>>
    /\ rows = <<>>
    /\ lastRowId \in StoreStarts
    /\ ex = [e \in Exchanges |-> NoExchange]
    /\ events = <<>>
    /\ requestIdCounter = RequestIdStart
    /\ sent = <<>>
    /\ answer = NoAnswer
    /\ controller = "later"
    /\ tlsSocket = NoTlsSocket /\ InitMock
    /\ Constructed

NextStore ==
    \/ \E request \in StoredRequests : SaveRequest(request)
    \/ \E id \in DOMAIN rows \cup {lastRowId + 1} : DeleteRequest(id)
    \/ ClearAll
    \/ \E cutoff \in Timestamps : DeleteOlderThan(cutoff)
    \/ \E composedRequest \in ComposedRequests : SendRequest(composedRequest)

SpecStore == InitStore /\ [][NextStore]_vars

\* A database file that holds a row when the store opens it; handlers save
\* rows, a user deletes rows, and a caller reads one row or lists them.
InitFile ==
    /\ config \in {c \in BreakpointConfigs : ~c.enabled}
    /\ rules = <<>>
    /\ pendingRequests = <<>>
    /\ promises = <<>>
    /\ timers = {}
    /\ hits = <<>>
    /\ \E row \in FileRows : rows = (1 :> ([id |-> 1] @@ row))
    /\ lastRowId = 1
    /\ ex = [e \in Exchanges |-> NoExchange]
    /\ events = <<>>
    /\ requestIdCounter = RequestIdStart
    /\ sent = <<>>
    /\ answer = NoAnswer
    /\ controller = "later"
    /\ tlsSocket = NoTlsSocket /\ InitMock
    /\ Constructed

NextFile ==
    \/ \E request \in StoredRequests : SaveRequest(request)
    \/ \E id \in DOMAIN rows : DeleteRequest(id)
    \/ \E id \in DOMAIN rows \cup {lastRowId + 1} : GetRequestById(id)
    \/ \E f \in Filters : GetRequests(f)

SpecFile == InitFile /\ [][NextFile]_vars

\* The composer beside the store: handlers save rows, and a user sends
\* composed requests and replays stored ones; the origin answers or the
\* request fails.
InitCompose == InitStore /\ lastRowId = 0

NextCompose ==
    \/ \E request \in StoredRequests : SaveRequest(request)
    \/ \E composedRequest \in ComposedRequests : SendRequest(composedRequest)
    \/ \E id \in 1..MaxRows : ReplayRequest(id)
    \/ \E k \in 1..MaxSends, res \in OriginResponses : SendResponseEnd(k, res)
    \/ \E k \in 1..MaxSends : SendError(k)

SpecCompose == InitCompose /\ [][NextCompose]_vars

\* ---------------------------------------------------------------------------
\* The plain-HTTP leg carrying uploads, breakpoints off.

InitBody == InitLegs

NextBody ==
    \/ \E e \in Exchanges, req \in UploadRequests : HttpRequest(e, req)
    \/ \E e \in Exchanges, res \in OriginResponses : HttpResponse(e, res)
    \/ \E e \in Exchanges : HttpResponseEnd(e)
    \/ \E e \in Exchanges, msg \in ErrorMessages : HttpError(e, msg)
    \/ \E e \in Exchanges : UpstreamClose(e)

SpecBody == InitBody /\ [][NextBody]_vars

\* ---------------------------------------------------------------------------
\* Both legs with breakpoints enabled and armed for responses only.

InitResponse ==
    Init /\ config.enabled /\ ~config.breakOnRequest /\ config.breakOnResponse

SpecResponse == InitResponse /\ [][NextLegs]_vars

\* ---------------------------------------------------------------------------
\* Request breakpoints with any 'breakpoint:hit' listener.

InitHit ==
    /\ InitExchanges /\ Started
    /\ controller \in Controllers
    /\ tlsSocket = NoTlsSocket /\ InitMock
    /\ config.enabled /\ config.breakOnRequest
    /\ rules = <<>>

NextHit ==
    \/ \E e \in Exchanges, req \in ClientRequests : HttpRequest(e, req)
    \/ \E id \in PauseIds, m \in {<<>>} \cup {<<x>> : x \in Modifications} :
          Continue(id, m)
    \/ \E id \in PauseIds : Drop(id)
    \/ \E id \in PauseIds : Watchdog(id)
    \/ ClearPending

SpecHit == InitHit /\ [][NextHit]_vars

\* ---------------------------------------------------------------------------
\* One intercepted TLS connection read in chunks, breakpoints off, no rules.

InitTls ==
    /\ InitExchanges /\ Started
    /\ proxyConfig[1].enableHttps
    /\ ~config.enabled /\ rules = <<>>
    /\ controller = "later"
    /\ tlsSocket \in TlsStreams /\ InitMock

NextTls ==
    \/ \E n \in 1..MaxChunk : TlsChunk(n)
    \/ \E e \in Exchanges, res \in OriginResponses : HttpsResponse(e, res)
    \/ \E e \in Exchanges, writable \in BOOLEAN : HttpsResponseEnd(e, writable)
    \/ \E e \in Exchanges, msg \in ErrorMessages : HttpsError(e, msg)
    \/ \E e \in Exchanges : UpstreamClose(e)

SpecTls == InitTls /\ [][NextTls]_vars

\* ---------------------------------------------------------------------------
\* The plain-HTTP leg with rows being deleted under the exchanges in flight.

InitLate == InitLegs /\ rules = <<>>

NextLate ==
    \/ \E e \in Exchanges, req \in ClientRequests : HttpRequest(e, req)
    \/ \E e \in Exchanges, res \in OriginResponses : HttpResponse(e, res)
    \/ \E e \in Exchanges : HttpResponseEnd(e)
    \/ \E e \in Exchanges, msg \in ErrorMessages : HttpError(e, msg)
    \/ \E e \in Exchanges : UpstreamClose(e)
    \/ \E id \in DOMAIN rows : DeleteRequest(id)
    \/ ClearAll
    \/ \E cutoff \in Timestamps : DeleteOlderThan(cutoff)

SpecLate == InitLate /\ [][NextLate]_vars

\* ---------------------------------------------------------------------------
\* The mock rules being edited and reloaded. Two rules may be added within
\* one millisecond; an edit comes at least a millisecond after the last save.

RuleIds == 1..(MaxRules + 1)

InitRules == InitStore /\ lastRowId = 0

NextRules ==
    \/ \E rule \in NewRules, tick \in {0, 1} : AddRule(rule, tick)
    \/ \E id \in RuleIds, updates \in RuleUpdates :
          UpdateRule(id, updates, 1)
    \/ \E id \in RuleIds, enabled \in BOOLEAN : ToggleRule(id, enabled, 1)
    \/ \E id \in RuleIds : DeleteRule(id)
    \/ LoadRules

SpecRules == InitRules /\ [][NextRules]_vars

\* The renderer's view across restarts: PROXY_START and PROXY_STOP are
\* invoked in turn, a start may fail, and while the proxy listens clients
\* connect and their plain-HTTP exchanges run to completion.
InitIpc ==
    /\ InitTraffic /\ ~config.enabled /\ rules = <<>>
    /\ Constructed

NextIpc ==
    \/ \E cfg \in ProxyConfigs : Start(cfg)
    \/ \E h \in 1..MaxStarts : ProxyStart(h)
    \/ \E h \in 1..MaxStarts : ListenError(h)
    \/ \E h \in 1..MaxStarts : Connection(h)
    \/ \E i \in 1..MaxSockets, e \in Exchanges, req \in ClientRequests :
          RequestOnConnection(i, e, req)
    \/ \E e \in Exchanges, res \in OriginResponses : HttpResponse(e, res)
    \/ \E e \in Exchanges : HttpResponseEnd(e)
    \/ \E i \in 1..MaxSockets : ClientSocketClose(i)
    \/ Stop
    \/ \E k \in 1..MaxStops : StopTimeout(k)
    \/ \E h \in 1..MaxStarts : CloseCallback(h)

SpecIpc == InitIpc /\ [][NextIpc]_vars

\* The lifecycle alone: start() and stop() are called in any state, servers
\* bind or fail to, clients connect and go away, and a stopped server
\* closes once its clients have gone or its stop() call times out.
InitLife == InitIpc

NextLife ==
    \/ \E cfg \in ProxyConfigs : Start(cfg)
    \/ \E cfg \in ProxyConfigs : StartWhileRunning(cfg)
    \/ \E h \in 1..MaxStarts : Listening(h)
    \/ \E h \in 1..MaxStarts : ListenError(h)
    \/ \E h \in 1..MaxStarts : Connection(h)
    \/ \E i \in 1..MaxSockets : ClientSocketClose(i)
    \/ Stop
    \/ StopWhileNotRunning
    \/ \E k \in 1..MaxStops : StopTimeout(k)
    \/ \E h \in 1..MaxStarts : CloseCallback(h)

SpecLife == InitLife /\ [][NextLife]_vars

\* Pauses that outlive the proxy: as under SpecStop, and the controller may
\* also continue a pause, before or after stop() has returned.
InitOutlive == InitStop

NextOutlive ==
    \/ NextStop
    \/ \E id \in PauseIds, m \in {<<>>} \cup {<<x>> : x \in Modifications} :
          Continue(id, m)

SpecOutlive == InitOutlive /\ [][NextOutlive]_vars

\* ------------------------------------------------------------------ claims

Allocated == 1..Len(promises)

EventsOf(e) == {i \in DOMAIN events : events[i].ex = e}

\* C1: every pause's reply slot is settled exactly once. While the id is in
\* the pending map nothing has called resolve or reject; once it has left the
\* map exactly one call has, and from then on no continue, drop, clearPending
\* or watchdog firing calls resolve or reject for it again or changes the
\* promise.
C1_InMapIffUnsettled ==
    \A id \in Allocated :
        /\ promises[id].settles <= 1
        /\ (pendingGet(id) # <<>>) <=> (promises[id].settles = 0)
        /\ (promises[id].state = "pending") <=> (promises[id].settles = 0)

C1_LaterCallsChangeNothing ==
    \A id \in Allocated :
        promises[id].settles = 1 =>
            /\ promises'[id] = promises[id]
            /\ \A m \in {<<>>} \cup {<<x>> : x \in Modifications} :
                  Continue(id, m) => UNCHANGED vars
            /\ Drop(id) => UNCHANGED vars
            /\ Watchdog(id) =>
                  UNCHANGED <<config, pendingRequests, promises, hits, rules,
                              rows, lastRowId, ex, events>>

C1_SettledExactlyOnce ==
    [](C1_InMapIffUnsettled) /\ [][C1_LaterCallsChangeNothing]_vars

\* C1 witness: a pause was dropped and its watchdog fired afterwards.
C1_Witness ==
    \E id \in Allocated : promises[id].state = "rejected" /\ id \notin timers

\* The exchange whose handler awaits pause `id`, and its request.
Paused(id) == ex[promises[id].ex]

\* C2: when the controller continues a paused plain-HTTP request with
\* `modified`, the upstream request carries modified.method, modified.headers
\* and modified.body.
C2_OriginSeesModified ==
    \A id \in Allocated :
        promises[id].by = "continue(id, modified)" =>
            LET modified == promises[id].outcome[1].value[1]
                up == Paused(id).upstream
            IN  /\ Len(up) = 1
                /\ up[1].method = modified.method
                /\ up[1].headers = modified.headers
                /\ up[1].body = OnWire(modified.body)

\* C3: a paused plain-HTTP request that is dropped is answered 499 with body
\* 'Request dropped by user', and no upstream request is issued for it.
C3_DropAnswers499 ==
    \A id \in Allocated :
        promises[id].state = "rejected" =>
            /\ Paused(id).client =
                  <<[status |-> 499, body |-> "Request dropped by user"]>>
            /\ Paused(id).upstream = <<>>

\* C3 witness: one request was dropped while another was forwarded.
C3_Witness ==
    \E id \in Allocated :
        /\ promises[id].state = "rejected"
        /\ \E f \in Exchanges : ex[f].upstream # <<>>

\* C4: when a request is dropped at a breakpoint the store holds a row for
\* that exchange with status 499.
C4_DropStoresRow499 ==
    \A id \in Allocated :
        promises[id].state = "rejected" =>
            \E r \in DOMAIN rows :
                /\ rows[r].status = 499
                /\ rows[r].url = Paused(id).req[1].url

C6_FinalStateWrittenOnce ==
    [][\A id \in DOMAIN rows : rows[id].status > 0 => rows'[id] = rows[id]]_vars

\* C7: the proxy emits 'request:complete' exactly once for every exchange it
\* has finished handling.
C7_CompleteExactlyOnce ==
    \A e \in Exchanges :
        ex[e].pc = "done" => Cardinality(EventsOf(e)) = 1

\* C8: when 'request:complete' is emitted, the store row of that id is
\* already in its final state: its status is non-zero and the row read back
\* equals the event's payload.
C8_StoredBeforeEmitted ==
    [][\A i \in (Len(events) + 1)..Len(events') :
          LET payload == events'[i].row
          IN  /\ payload.status # 0
              /\ payload.id \in DOMAIN rows'
              /\ rows'[payload.id] = payload]_vars

\* C8 witness: the event of an intercepted exchange the origin answered.
C8_Witness ==
    \E i \in DOMAIN events :
        /\ ex[events[i].ex].path = "mitm"
        /\ ex[events[i].ex].res # <<>>
        /\ events[i].row.status = ex[events[i].ex].res[1].status

\* C9: a stop() call that passes its guard (there is a server and it is
\* running) returns: its promise is eventually resolved, by the server's
\* close callback or by the 2-second timer, however many pauses are pending
\* and sockets open; and in the step that resolves it running becomes false
\* and server null.
C9_ResolvesStopped ==
    \A k \in DOMAIN stops :
        (~stops[k].resolved /\ stops'[k].resolved) =>
            (running' = FALSE /\ server' = 0)

C9_StopAlwaysReturns ==
    /\ \A k \in 1..MaxStops :
          (k \in DOMAIN stops) ~> (k \in DOMAIN stops /\ stops[k].resolved)
    /\ [][C9_ResolvesStopped]_vars

\* A stop() call resolved by its timer (its close callback is still
\* registered) while a pause is pending and a destroyed client socket has
\* not closed yet.
C9_Witness ==
    \E k \in DOMAIN stops :
        /\ stops[k].resolved
        /\ stops[k].callback
        /\ pendingRequests # <<>>
        /\ \E i \in DOMAIN conns : conns[i].clientSocket = "closing"

\* C10: once generateServerCert has returned for a host it is never called
\* for that host again, so it returns at most once per host, and the host's
\* cache entry is never replaced or removed.
C10_EntryKept ==
    \A h \in Hosts :
        certCache[h] # <<>> =>
            (certCache'[h] = certCache[h] /\ minted'[h] = minted[h])

C10_GeneratedOncePerHost ==
    /\ [](\A h \in Hosts : minted[h].returned <= 1)
    /\ [][C10_EntryKept]_vars

\* Two intercepted connections to one host, the second served from the
\* cache: the factory has returned once for the host.
C10_Witness ==
    \E i, j \in DOMAIN conns :
        /\ i # j
        /\ conns[i].peer = "tlsSocket"
        /\ conns[j].peer = "tlsSocket"
        /\ conns[i].hostname = conns[j].hostname
        /\ minted[conns[i].hostname].returned = 1

\* The exchanges dispatched on connection i before position k.
Earlier(i, k) == {conns[i].requests[j] : j \in 1..(k - 1)}

\* C11: on one intercepted connection requests are handled one after the
\* other: when handling of a request begins, every earlier request of the
\* connection has had its response written to the client.
C11_MitmSequential ==
    [][\A i \in DOMAIN conns :
          Len(conns'[i].requests) > Len(conns[i].requests) =>
              \A e \in Earlier(i, Len(conns'[i].requests)) :
                  ex[e].client # <<>>]_vars

\* C12: a request received inside an intercepted TLS connection that no
\* mock rule answers and for which shouldBreak('request', ...) holds is
\* paused: a pause is registered for its exchange (breakpoint:hit emitted),
\* and no upstream request exists for it while that pause is pending.
C12_MitmBreakpoints ==
    \A e \in Exchanges :
        (/\ ex[e].path = "mitm"
         /\ findMatchingRule(rules, ex[e].req[1].method, ex[e].req[1].url) = 0
         /\ shouldBreak(config, "request", ex[e].req[1].url)) =>
            \E id \in Allocated :
                /\ promises[id].ex = e
                /\ hits[id].url = ex[e].req[1].url
                /\ ex[e].upstream # <<>> => promises[id].state # "pending"

\* The exchanges whose upstream request holds a socket that has not closed.
LiveUpstream ==
    {e \in Exchanges :
        ex[e].upstream # <<>> /\ ex[e].pc \in {"upstream", "streaming", "ended"}}

\* C13: while the proxy runs, every live socket opened on its behalf is in
\* activeSockets: the open client sockets, the open TLS and blind-tunnel
\* sockets, and the sockets of requests forwarded upstream.
C13_RegistryHoldsLiveSockets ==
    running =>
        /\ \A i \in DOMAIN conns :
              /\ conns[i].clientSocket = "open" =>
                    <<"clientSocket", i>> \in activeSockets
              /\ conns[i].peerSocket = "open" =>
                    <<conns[i].peer, i>> \in activeSockets
        /\ \A e \in LiveUpstream : <<"upstream", e>> \in activeSockets

\* C14: a start(config) whose listen fails leaves the proxy as it was before
\* the call. Stated for the first start of a proxy, where the state before
\* the call is the constructed one: once that start has failed, running is
\* false, no config is stored (getStatus() returns null) and server is null.
C14_FailedStartLeavesNoTrace ==
    (Len(servers) = 1 /\ servers[1] = "failed") =>
        /\ running = FALSE
        /\ proxyConfig = <<>>
        /\ server = 0

\* C15: when the upstream request of a plain-HTTP exchange fails, the
\* exchange's row gets status 502 with the error message as response body,
\* and a 502 is written to the client exactly when no response head had
\* been sent to it; otherwise what the client has received is left as is.
C15_FailureStep ==
    \A e \in Exchanges :
        (ex[e].path = "http" /\ ~ex[e].errored /\ ex'[e].errored) =>
            /\ rows'[ex[e].rowId].status = 502
            /\ rows'[ex[e].rowId].responseBody \in ErrorMessages
            /\ IF ex[e].client = <<>>
               THEN Len(ex'[e].client) = 1 /\ ex'[e].client[1].status = 502
               ELSE ex'[e].client = ex[e].client

C15_UpstreamFailure == [][C15_FailureStep]_vars

\* One plain-HTTP exchange failed before any response and was answered 502;
\* another failed after its response head had gone to the client.
C15_Witness ==
    \E e, f \in Exchanges :
        /\ ex[e].path = "http" /\ ex[e].errored
        /\ ex[e].client[1].status = 502
        /\ ex[f].path = "http" /\ ex[f].errored
        /\ ex[f].client[1].status # 502
        /\ rows[ex[f].rowId].status = 502

\* C16: when generateServerCert throws for the host of a CONNECT, the client
\* socket gets 'HTTP/1.1 502 Bad Gateway' and is ended, '200 Connection
\* Established' is never written on it, the cert cache gets no entry for the
\* host, and no TLS socket is created or registered.
C16_Refused(i) ==
    /\ conns[i].wrote = <<BadGateway>>
    /\ conns[i].clientSocket \in {"closing", "closed"}
    /\ conns[i].peerSocket = NoPeer
    /\ <<"tlsSocket", i>> \notin activeSockets

C16_FailureStep ==
    \A h \in Hosts :
        (/\ minted'[h].invoked > minted[h].invoked
         /\ minted'[h].returned = minted[h].returned) =>
            /\ certCache[h] = <<>> /\ certCache'[h] = <<>>
            /\ activeSockets' = activeSockets
            /\ \E i \in DOMAIN conns :
                  /\ conns[i].hostname = Null
                  /\ conns'[i].hostname = h
                  /\ conns'[i].peer = NoPeer

C16_CertFailureIs502 ==
    /\ [](\A i \in DOMAIN conns :
             (conns[i].hostname # Null /\ conns[i].peer = NoPeer) =>
                 C16_Refused(i))
    /\ [][C16_FailureStep]_vars

\* A CONNECT was refused because the factory threw, and a later CONNECT to
\* the same host was intercepted.
C16_Witness ==
    \E i, j \in DOMAIN conns :
        /\ i < j
        /\ conns[i].hostname # Null /\ conns[i].peer = NoPeer
        /\ conns[j].hostname = conns[i].hostname
        /\ conns[j].peer = "tlsSocket"

\* C17: row ids are strictly increasing in insertion order, whatever
\* deleteRequest, clearAll and deleteOlderThan calls come between two
\* saves: every id in the table is at most the last id handed out, and a
\* save hands out an id larger than the last one, which never goes down.
C17_IdStep ==
    /\ lastRowId' >= lastRowId
    /\ \A id \in DOMAIN rows' \ DOMAIN rows :
          id > lastRowId /\ lastRowId' = id

C17_IdsIncrease ==
    /\ [](\A id \in DOMAIN rows : id <= lastRowId)
    /\ [][C17_IdStep]_vars

\* A row was saved after the row saved just before it had been deleted.
C17_Witness ==
    /\ lastRowId \in 2..MaxRows
    /\ lastRowId \in DOMAIN rows
    /\ (lastRowId - 1) \notin DOMAIN rows

\* C18: no id the composer's counter has handed out is the id of a row of
\* the store.
C18_ComposerIdsApart ==
    \A id \in DOMAIN rows : ~(RequestIdStart <= id /\ id < requestIdCounter)

\* C19: for every filter, getRequests without pagination returns as many
\* rows as getRequestCount counts.
C19_ListLenEqualsCount ==
    \A f \in Filters :
        \A s \in getRequests(rows, f) :
            Len(s.value) = getRequestCount(rows, f)

\* C20: what getRequests returns is sorted by timestamp descending, and
\* rows with equal timestamps by id descending.
C20_ListOrder ==
    \A f \in Filters :
        \A s \in getRequests(rows, f) :
            \A i, j \in DOMAIN s.value :
                i < j =>
                    \/ s.value[i].timestamp > s.value[j].timestamp
                    \/ /\ s.value[i].timestamp = s.value[j].timestamp
                       /\ s.value[i].id > s.value[j].id

\* The filter f with the limit and offset of p.
Paged(f, p) == [f EXCEPT !.limit = p.limit, !.offset = p.offset]

\* The rows of u from position offset + 1 on, at most `limit` of them; all
\* of them when limit is 0 (not given).
Slice(u, offset, limit) ==
    LET last == IF limit > 0 /\ offset + limit < Len(u)
                THEN offset + limit ELSE Len(u)
    IN  [k \in 1..(IF last > offset THEN last - offset ELSE 0) |->
            u[offset + k]]

\* C21: for every filter, limit and offset, what getRequests returns with
\* pagination is the slice [offset, offset + limit) of a result of the same
\* filter without pagination; limit and offset are each optional, an offset
\* without a limit skipping the first `offset` rows.
C21_PageIsSlice ==
    \A f \in Filters, p \in Pages :
        \A s \in getRequests(rows, Paged(f, p)) :
            \E u \in getRequests(rows, f) :
                s.value = Slice(u.value, p.offset, p.limit)

\* The header mapping a read gives for the text of a header column: the
\* object the text denotes, {} when the text is not JSON.
Degraded(text) ==
    IF JSONparse(OrEmptyObject(text)).threw THEN {}
    ELSE JSONparse(OrEmptyObject(text)).value

\* C22: a read never throws, whatever the header columns of the rows hold:
\* getRequestById and getRequests return each row with the header mapping
\* its column denotes, and with {} where the column is not JSON.
C22_ReadStep ==
    answer' # answer =>
        /\ ~answer'.threw
        /\ \A i \in DOMAIN answer'.value :
              \A c \in HeaderColumns :
                  answer'.value[i][c] = Degraded(rows[answer'.value[i].id][c])

C22_MalformedHeadersDegrade == [][C22_ReadStep]_vars

\* What pauseAtBreakpoint snapshots for pause `id`: the arguments its
\* handler passed.
Snapshot(id) ==
    LET req == Paused(id).req[1]
    IN  [id |-> id, type |-> "request", method |-> req.method, url |-> req.url,
         headers |-> req.headers, body |-> OrNull(req.body)]

\* C23: continue(id, modified) on a pending id resolves the pause with
\* exactly `modified`; continue(id) resolves it with the snapshot taken when
\* the request paused (the one 'breakpoint:hit' carried: same id, direction,
\* method, url, headers and body).
C23_ContinueStep ==
    \A id \in Allocated, m \in {<<>>} \cup {<<x>> : x \in Modifications} :
        (pendingGet(id) # <<>> /\ Continue(id, m)) =>
            /\ promises'[id].state = "resolved"
            /\ promises'[id].outcome =
                  <<Resolve(IF m # <<>> THEN m ELSE <<Snapshot(id)>>)>>

C23_ContinueResolvesWith ==
    /\ [](\A id \in Allocated : hits[id] = Snapshot(id))
    /\ [][C23_ContinueStep]_vars

\* One pause was continued without a modification and another with one
\* whose url is not the paused request's.
C23_Witness ==
    \E id, other \in Allocated :
        /\ promises[id].by = "continue(id)"
        /\ promises[other].by = "continue(id, modified)"
        /\ promises[other].outcome[1].value[1].url # Paused(other).req[1].url

\* C24: when the watchdog of a pause fires and the pause is still pending
\* (no continue, drop or clearPending has taken it), the pause leaves the
\* pending map and resolves with null, and its handler forwards the request
\* as the client sent it: the client's method and body, and the client's
\* headers as every forwarded request carries them (less proxy-connection).
\* No pause is pending once its watchdog has fired.
C24_WatchdogStep ==
    \A id \in Allocated :
        (id \in timers /\ id \notin timers' /\ pendingGet(id) # <<>>) =>
            LET e == promises[id].ex
                req == ex[e].req[1]
            IN  /\ \A k \in DOMAIN pendingRequests' :
                      pendingRequests'[k].id # id
                /\ promises'[id].state = "resolved"
                /\ promises'[id].by = "watchdog"
                /\ promises'[id].outcome = <<Resolve(<<>>)>>
                /\ ex'[e].pc = "upstream"
                /\ ex'[e].client = <<>>
                /\ ex'[e].upstream =
                      <<[method |-> req.method,
                         headers |-> req.headers \ {"proxy-connection"},
                         body |-> req.body]>>

C24_WatchdogResumesOriginal ==
    /\ [](\A id \in Allocated : id \notin timers => pendingGet(id) = <<>>)
    /\ [][C24_WatchdogStep]_vars

\* The watchdog resumed one pause while another is still pending.
C24_Witness ==
    \E id, other \in Allocated :
        /\ promises[id].by = "watchdog"
        /\ Paused(id).upstream # <<>>
        /\ pendingGet(other) # <<>>

\* C25: continue(id) and drop(id) with an id that is not in the pending map
\* (never allocated, or already continued, dropped, timed out or cleared)
\* do nothing: no promise is settled, nothing is raised, and the pending
\* map and every outstanding pause stay as they are.
C25_AbsentStep ==
    \A id \in PauseIds :
        pendingGet(id) = <<>> =>
            /\ \A m \in {<<>>} \cup {<<x>> : x \in Modifications} :
                  Continue(id, m) => UNCHANGED vars
            /\ Drop(id) => UNCHANGED vars

C25_AbsentIdIsNoOp == [][C25_AbsentStep]_vars

\* A state in which such calls can be made: one pause has been continued,
\* one id has never been allocated, and another pause is outstanding.
C25_Witness ==
    \E id, other \in Allocated :
        /\ promises[id].by = "continue(id)"
        /\ pendingGet(id) = <<>>
        /\ pendingGet(other) # <<>>
        /\ promises[other].state = "pending"
        /\ \E never \in PauseIds : never \notin Allocated

\* The URLs a pattern of the model matches when case is ignored.
MatchedIgnoringCase(p) ==
    CASE p = ".*" -> Urls
      [] p = "a\\.test" -> {u \in Urls : u.host \in {"a.test", "A.TEST"}}
      [] OTHER -> {}

\* C26: shouldBreak(direction, method, url) is true exactly when the
\* configuration is enabled, the direction is armed (breakOnRequest for
\* 'request', breakOnResponse for 'response') and urlPattern is unset or a
\* valid regex that matches url, case ignored; with an invalid urlPattern it
\* is false.
C26_ShouldBreakIff ==
    \A type \in {"request", "response"}, url \in Urls :
        shouldBreak(config, type, url) <=>
            /\ config.enabled
            /\ type = "request" => config.breakOnRequest
            /\ type = "response" => config.breakOnResponse
            /\ \/ config.urlPattern = NoPattern
               \/ /\ config.urlPattern # "("
                  /\ url \in MatchedIgnoringCase(config.urlPattern)

\* Under a configuration with a pattern, the request the pattern matches
\* has paused and the one it does not match has been forwarded.
C26_Witness ==
    /\ config.urlPattern = "a\\.test"
    /\ \E e, f \in Exchanges :
          /\ ex[e].pc = "paused" /\ ex[e].req[1].url.host = "a.test"
          /\ ex[f].pc = "upstream" /\ ex[f].pauseId = 0
          /\ ex[f].req[1].url.host = "b.test"

\* Rule i of the collection rs answers a request of this method and url.
Eligible(rs, i, method, url) ==
    /\ rs[i].enabled
    /\ rs[i].method = "" \/ rs[i].method = method
    /\ rs[i].urlPattern # "("
    /\ url \in MatchedIgnoringCase(rs[i].urlPattern)

\* C27: findMatchingRule(method, url) returns the first rule, in insertion
\* order, that is enabled, whose method is absent or equal to `method`, and
\* whose urlPattern is a valid regex matching url, case ignored; a rule
\* with an invalid pattern is skipped and the scan goes on; the result is
\* null exactly when there is no such rule.
C27_FirstEligibleRule ==
    \A method \in {"GET", "POST"}, url \in Urls :
        LET r == findMatchingRule(rules, method, url)
            eligible == {i \in DOMAIN rules : Eligible(rules, i, method, url)}
        IN  IF eligible = {} THEN r = 0
            ELSE r \in eligible /\ \A i \in eligible : r <= i

\* A request was answered by the third rule of a collection whose first rule
\* is disabled and whose second has an invalid pattern.
C27_Witness ==
    /\ Len(rules) = 3
    /\ ~rules[1].enabled
    /\ rules[2].urlPattern = "("
    /\ \E e \in Exchanges : ex[e].pc = "done" /\ ex[e].rule = <<rules[3]>>


\* ---------------------------------------------------------------------------
\* C28: when the 'end' handler of an upstream response completes an exchange,
\* the row's size is the byte length of the body as read from the origin
\* (whatever its content-encoding), the body bytes written to the client are
\* the bytes read, and on the intercepted path the Content-Length the proxy
\* writes is the number of body bytes it writes.
C28_EndStep(e) ==
    /\ ex[e].pc = "streaming" /\ ex'[e].pc = "ended"
    /\ ex[e].rowId \in DOMAIN rows

\* What the step has written to the client of e: on the plain path the entry
\* begun with the head has its body, on the intercepted path an entry is added
\* if the socket took it.
C28_Forwarded(e) ==
    IF ex[e].path = "mitm"
    THEN SubSeq(ex'[e].client, Len(ex[e].client) + 1, Len(ex'[e].client))
    ELSE SubSeq(ex'[e].client, Len(ex'[e].client), Len(ex'[e].client))

C28_SizeFidelity ==
    [][\A e \in Exchanges : C28_EndStep(e) =>
          LET res == ex[e].res[1]
              forwarded == C28_Forwarded(e)
          IN  /\ rows'[ex[e].rowId].size = byteLength(res.body)
              /\ \A i \in DOMAIN forwarded :
                    /\ forwarded[i].body = res.body
                    /\ ex[e].path = "mitm" =>
                          forwarded[i].contentLength
                            = byteLength(forwarded[i].body)]_vars

\* A gzip response has completed an intercepted exchange: the row holds the
\* inflated body and the size of the stream, the client got the stream.
C28_Witness ==
    \E e \in Exchanges :
        /\ ex[e].path = "mitm" /\ ex[e].pc = "ended" /\ ~ex[e].errored
        /\ ex[e].res[1].encoding = "gzip"
        /\ ex[e].rowId \in DOMAIN rows
        /\ rows[ex[e].rowId].size = 20
        /\ rows[ex[e].rowId].responseBody = ""
        /\ ex[e].client = <<[status |-> 404, contentLength |-> 20,
                             body |-> "<gzip>"]>>


\* ---------------------------------------------------------------------------
\* C29: for a forwarded request whose body is larger than maxRequestBodySize,
\* the row's requestBody is a note about the truncation and not the body,
\* while the request sent to the origin carries the whole body.
C29_OverCap(e) ==
    /\ ex[e].path = "http" /\ ex[e].upstream # <<>>
    /\ ex[e].rowId \in DOMAIN rows
    /\ byteLength(ex[e].req[1].body) > maxRequestBodySize

C29_OverCapBodyIsPlaceholder ==
    \A e \in Exchanges : C29_OverCap(e) =>
        /\ rows[ex[e].rowId].requestBody # ex[e].req[1].body
        /\ ex[e].upstream[1].body = ex[e].req[1].body

\* The part of C29 that holds: the origin is sent the whole body.
C29_FullBodyForwarded ==
    \A e \in Exchanges : C29_OverCap(e) =>
        ex[e].upstream[1].body = ex[e].req[1].body


\* ---------------------------------------------------------------------------
\* C30: no step of a replayRequest or sendRequest call, from the call to the
\* settling of its promise, writes to the store: rows and the id sequence are
\* as before. A call takes exactly one id, the counter's value, and settling
\* takes none.
C30_ComposerStep == sent' # sent

C30_ComposerLeavesStore ==
    [][C30_ComposerStep =>
          /\ rows' = rows
          /\ lastRowId' = lastRowId
          /\ IF Len(sent') > Len(sent)
             THEN /\ Len(sent') = Len(sent) + 1
                  /\ sent'[Len(sent')].id = requestIdCounter
                  /\ requestIdCounter' = requestIdCounter + 1
             ELSE requestIdCounter' = requestIdCounter]_vars

\* A replay of row 1 has resolved and a composed request has been rejected;
\* row 1 is in the store and the two calls took two ids.
C30_Witness ==
    /\ 1 \in DOMAIN rows
    /\ requestIdCounter = RequestIdStart + 2
    /\ \E k, j \in DOMAIN sent :
          /\ sent[k].state = "resolved"
          /\ sent[k].request.method = rows[1].method
          /\ sent[k].request.url = rows[1].url
          /\ sent[j].state = "rejected"
          /\ sent[j].request \in ComposedRequests


\* ---------------------------------------------------------------------------
\* C31: when breakpoints are enabled and armed for responses and the URL
\* matches, a response is handed to pauseAtBreakpoint (a 'breakpoint:hit' of
\* type "response" for that URL is emitted) before anything of it is written
\* to the client.
C31_ResponseWritten(e) ==
    /\ ex[e].path \in {"http", "mitm"}
    /\ ex[e].res # <<>>
    /\ \E i \in DOMAIN ex[e].client :
          ex[e].client[i].status = ex[e].res[1].status

C31_ResponsePausedFirst ==
    \A e \in Exchanges :
        (C31_ResponseWritten(e)
           /\ shouldBreak(config, "response", ex[e].req[1].url))
        => \E i \in DOMAIN hits : /\ hits[i].type = "response"
                                  /\ hits[i].url = ex[e].req[1].url


\* ---------------------------------------------------------------------------
\* C32: when 'breakpoint:hit' is emitted the pause is already in the pending
\* map, so that a listener answering with continue(id) or drop(id) before it
\* returns resumes the pause: no pause is left pending by such a listener.
\* One 'breakpoint:hit' is emitted per pause.
C32_HitListenerResumes ==
    /\ Len(hits) = Len(promises)
    /\ \A id \in 1..Len(promises) :
          /\ hits[id].id = id
          /\ controller \in {"continue", "drop"} =>
                /\ promises[id].state # "pending"
                /\ pendingGet(id) = <<>>

\* The part of C32 that holds: one 'breakpoint:hit' per pause, carrying its id.
C32_OneHitPerPause ==
    /\ Len(hits) = Len(promises)
    /\ \A id \in 1..Len(promises) : hits[id].id = id


\* ---------------------------------------------------------------------------
\* C33: on an intercepted TLS connection every complete request received
\* (a head, then as many body bytes as its Content-Length says) has been
\* given to processHttpsRequest, once and in arrival order, when the 'data'
\* handler returns: none waits in the buffer for more bytes from the client.

\* The complete requests at the front of `units`, in order.
RECURSIVE C33_Framed(_)
C33_Framed(units) ==
    IF units = <<>> \/ units[1].unit # "head"
       \/ Len(units) < 1 + units[1].contentLength
    THEN <<>>
    ELSE <<[method |-> units[1].method, path |-> units[1].path,
            body |-> IF units[1].contentLength = 0 THEN ""
                     ELSE units[2].byte]>>
         \o C33_Framed(SubSeq(units, 2 + units[1].contentLength, Len(units)))

\* The requests given to processHttpsRequest, in order.
C33_Dispatched ==
    LET n == Cardinality({e \in Exchanges : ex[e].path = "mitm"})
    IN  [e \in 1..n |-> [method |-> ex[e].req[1].method,
                         path |-> ex[e].req[1].url.path,
                         body |-> ex[e].req[1].body]]

C33_ReceivedIsDispatched ==
    C33_Dispatched
      = C33_Framed(SubSeq(tlsSocket.incoming, 1, tlsSocket.read))

\* The part of C33 that holds: what has been dispatched is a prefix of the
\* requests received, so each at most once and in arrival order.
C33_DispatchedInOrderOnce ==
    LET received == C33_Framed(SubSeq(tlsSocket.incoming, 1, tlsSocket.read))
    IN  /\ Len(C33_Dispatched) <= Len(received)
        /\ C33_Dispatched = SubSeq(received, 1, Len(C33_Dispatched))


\* ---------------------------------------------------------------------------
\* C34: with rows deleted under the exchanges in flight, no two exchanges own
\* the same row; a row appears only as the fresh row an arriving exchange
\* inserts, a row changes only in a step of the exchange that inserted it, and
\* a 'request:complete' is emitted only by an exchange whose row is stored.

\* The exchange e takes a step.
C34_Steps(e) == ex'[e] # ex[e]

C34_OnlyOwnerUpdates ==
    /\ [](\A e, f \in Exchanges :
            (e # f /\ ex[e].rowId # 0) => ex[e].rowId # ex[f].rowId)
    /\ [][/\ \A id \in DOMAIN rows' \ DOMAIN rows :
               /\ id = lastRowId + 1
               /\ \E e \in Exchanges :
                     ex[e].rowId = 0 /\ ex'[e].rowId = id
          /\ \A id \in DOMAIN rows' \cap DOMAIN rows :
               rows'[id] # rows[id] =>
                 \E e \in Exchanges : ex[e].rowId = id /\ C34_Steps(e)
          /\ events' # events =>
               /\ Len(events') = Len(events) + 1
               /\ LET event == events'[Len(events')]
                  IN  /\ C34_Steps(event.ex)
                      /\ ex'[event.ex].rowId \in DOMAIN rows'
                      /\ event.row.id = ex'[event.ex].rowId]_vars

\* The response of exchange 1 ended after its row had been deleted: the row
\* is not back, nothing was announced for it, and the row of exchange 2 is
\* still pending.
C34_Witness ==
    /\ ex[1].pc = "ended" /\ ex[1].rowId = 1
    /\ 1 \notin DOMAIN rows
    /\ \A i \in DOMAIN events : events[i].ex # 1
    /\ ex[2].rowId = 2 /\ 2 \in DOMAIN rows
    /\ rows[2].status = 0


\* ---------------------------------------------------------------------------
\* C35: when loadRules rebuilds the Map from the store, every (method, url)
\* that more than one enabled rule matches gets the same rule from
\* findMatchingRule after the rebuild as before it.
C35_LoadStep == answer'.call = "loadRules" /\ mockRules' = mockRules

C35_TieBreakSurvivesReload ==
    [][C35_LoadStep =>
          \A method \in {"GET", "POST"}, url \in Urls :
              Cardinality({i \in DOMAIN rules :
                             Eligible(rules, i, method, url)}) > 1
              => rules[findMatchingRule(rules, method, url)].id
                   = rules'[findMatchingRule(rules', method, url)].id]_vars

\* ---------------------------------------------------------------------------
\* C36: the rules in the Map are the rules in table mock_rules, ids and
\* field values; updateRule, toggleRule and deleteRule with an id the Map
\* does not hold throw and change neither; updateRule leaves every rule's id
\* as it is.
C36_Persisted == {rowRule(mockRules[id]) : id \in DOMAIN mockRules}

C36_InMemory == {rules[i] : i \in DOMAIN rules}

C36_UnknownIdCall(id) ==
    \/ DeleteRule(id)
    \/ \E updates \in RuleUpdates : UpdateRule(id, updates, 1)
    \/ \E enabled \in BOOLEAN : ToggleRule(id, enabled, 1)

C37_CapturedExactlyOnce ==
    \A k \in DOMAIN events : RequestCaptured(k) = 1

\* C37, the part that holds: no event goes unsent, and an event is sent once
\* per PROXY_START that had succeeded when it was emitted.
C37_CapturedOncePerStart ==
    \A k \in DOMAIN events :
        /\ RequestCaptured(k) >= 1
        /\ RequestCaptured(k) <= Cardinality({h \in DOMAIN servers :
                                      servers[h] \notin {"binding", "failed"}})

\* A stop() call resolves in this step.
C38_StopResolves ==
    \E k \in DOMAIN stops : ~stops[k].resolved /\ stops'[k].resolved

\* C38: start() while running throws 'Proxy server is already running' and
\* leaves config, server and running as they were; stop() while not running
\* returns with no effect; when a start succeeds running is true; and when a
\* stop() resolves running is false, so that the next start() is accepted.
C38_Lifecycle ==
    [][/\ (\E cfg \in ProxyConfigs : StartWhileRunning(cfg)) =>
              /\ refused' = "start: Proxy server is already running"
              /\ UNCHANGED <<frontVars, exchangeVars>>
       /\ (refused' # refused /\ refused' # "stop") =>
              (running /\ UNCHANGED <<proxyConfig, server, running>>)
       /\ StopWhileNotRunning => UNCHANGED <<frontVars, exchangeVars>>
       /\ Len(stops') > Len(stops) => running
       /\ (\E h \in DOMAIN servers : Listening(h)) => running'
       /\ C38_StopResolves => (~running' /\ server' = 0)
       /\ (\E cfg \in ProxyConfigs : Start(cfg)) <=>
              (~running /\ Len(servers') = Len(servers) + 1)]_vars

\* start() has been refused on a running proxy, the proxy has been stopped,
\* and a second start() has been accepted and has succeeded.
C38_Witness ==
    /\ refused = "start: Proxy server is already running"
    /\ \E k \in DOMAIN stops : stops[k].resolved
    /\ Len(servers) = 2 /\ servers[2] = "listening"
    /\ running

\* stop() has returned: the only server there is has been stopped and a
\* stop() call on it has resolved.
C39_Stopped ==
    \E k \in DOMAIN stops : stops[k].resolved

\* C39: once stop() has returned, no exchange the stopped proxy accepted
\* inserts a store row or opens an upstream connection, whether its pause is
\* resolved by continue or by the watchdog.
C39_NoWorkAfterStop ==
    [][C39_Stopped =>
          /\ lastRowId' = lastRowId
          /\ \A e \in Exchanges : ex'[e].upstream = ex[e].upstream]_vars

\* C39, the part that holds: after stop() has returned the stopped proxy
\* accepts no new exchange.
C39_NothingAcceptedAfterStop ==
    [][C39_Stopped =>
          \A e \in Exchanges : ex[e].pc = "idle" => ex'[e].pc = "idle"]_vars

====
